---- MODULE Spec2Model ----
\* A model of the @4everlabs/tree family-tree component:
\*   - the connector style resolver      (src/design-presets.ts)
\*   - the connector geometry engine     (src/components/family-tree.tsx, computeLineSegments)
\*   - the frame-coalescing scheduler    (src/components/family-tree.tsx, useEffect/schedule)
\*
\* Units.  Measured rectangles are in CSS pixels (integers here).  Anchor points and the
\* coordinates of a path are kept in HALF pixels (twice the pixel value), so that the
\* source's "width / 2", "height / 2" and "(a + b) / 2" are exact: a point [x |-> 7]
\* is at 3.5px.
EXTENDS Integers, Sequences, FiniteSets, TLC

VARIABLES
    \* props of FamilyTree
    rootMember,        \* the FamilyMember tree (props.rootMember)
    designPreset,      \* props.designPreset
    designOverrides,   \* props.designOverrides
    connectorConfig,   \* useMemo(getFamilyTreeConfig(designPreset, designOverrides))
    \* the DOM under containerRef
    nodeElements,      \* container.querySelectorAll("[data-family-node-id]"), in document order
    scroll,            \* [left, top]: container.scrollLeft / scrollTop
    \* state of FamilyTree
    lineSegments,      \* useState<LineSegment[]>
    canvasSize,        \* useState({width, height})
    colorCache,        \* the module-level colorCache Map
    \* the scheduling effect (lines 285-305) and the browser around it
    phase,             \* "called" (config not resolved yet) | "unmounted" | "rendering" (DOM committed, layout effects due) |
                       \* "committed" (no effect installed yet) | "mounted" | "torndown"
    effectProps,       \* the rootMember and config the installed effect's computeLineSegments closes over
    frameId,           \* the installed effect's frameId (0 is null)
    listeners,         \* the signal sources that call the installed effect's schedule
    rafQueue,          \* ids requested with requestAnimationFrame, not yet fired or cancelled
    roPending,         \* the ResizeObserver has a notification to deliver
    passivePending,    \* a commit changed computeLineSegments; the useEffect re-run is still due
    \* history, for stating the properties
    signalsSinceFrame, \* calls of schedule() since the last animation frame (counted up to MaxSignals)
    cleanupSinceSignal,\* an effect cleanup ran after the last call of schedule()
    last,              \* the last step: its kind, the computeLineSegments calls it made, and
                       \* signalsSinceFrame and cleanupSinceSignal as they were before it
    owed,              \* a trigger happened and no computeLineSegments run has started since
    \* src/design-presets.ts, called by any host
    presetTable,       \* the module-level object familyTreePresets
    resolverLog,       \* the calls of getFamilyTreeConfig made so far: preset, override, result
    \* the add-member flow: FamilyTree (lines 307-338, 498-518) and AddMemberDialog
    hostProps,         \* props canEdit, onAddMember (present or not), searchProfiles (present or not)
    dialogState,       \* FamilyTree's useState {isOpen, relation, parentId}
    isSubmitting,      \* FamilyTree's useState isSubmitting
    dialog,            \* the useState values of AddMemberDialog, and debouncedQuery
    searches,          \* searchProfiles(query) promises not settled: the query, the effect's `active`
    submissions,       \* onAddMember(payload) promises not settled, with what handleSubmit closed over
    dialogLast,        \* the last step of the add-member flow: what it called, what it left unhandled
    \* the environment of resolveColorFromClass, and calls of the two parsing helpers
    hasWindow,         \* typeof window !== "undefined": the module runs in a browser
    theme,             \* the style sheet in force: what getComputedStyle yields for a class
    utilLog            \* the calls of resolveColorFromClass / parseThicknessPx made directly

treeVars == << rootMember, designPreset, designOverrides, connectorConfig, nodeElements, scroll,
               lineSegments, canvasSize, colorCache, phase, effectProps, frameId, listeners,
               rafQueue, roPending, passivePending, signalsSinceFrame, cleanupSinceSignal,
               last, owed >>

resolverVars == << presetTable, resolverLog >>

dialogVars == << hostProps, dialogState, isSubmitting, dialog, searches, submissions,
                 dialogLast >>

utilVars == << hasWindow, theme, utilLog >>

\* What no step of the connector drawing of one FamilyTree touches.
besideTree == << resolverVars, dialogVars, utilVars >>

vars == << treeVars, besideTree >>

propVars  == << rootMember, designPreset, designOverrides, connectorConfig >>
domVars   == << nodeElements, scroll >>
drawVars  == << lineSegments, canvasSize, colorCache >>
schedVars == << phase, effectProps, frameId, listeners, rafQueue, roPending, passivePending,
                signalsSinceFrame, cleanupSinceSignal, last, owed >>

\* JavaScript's undefined (an absent optional field, a Map miss).
Undefined == "undefined"

Min(S) == CHOOSE m \in S : \A n \in S : m <= n
Max(S) == CHOOSE m \in S : \A n \in S : m >= n
Range(s) == { s[i] : i \in DOMAIN s }

\* Object spread {...a, ...b}: b's keys win, a's other keys stay.
Spread(a, b) == [k \in (DOMAIN a) \cup (DOMAIN b) |-> IF k \in DOMAIN b THEN b[k] ELSE a[k]]

(***************************************************************************)
(* Class strings.  A class string is the sequence of its space-separated   *)
(* tokens (value.split(" ")); a token is the utility prefix it starts with *)
(* and what follows it: a name, the hairline keyword "px", a bracketed     *)
(* pixel count "[Npx]" or a bare number.                                   *)
(***************************************************************************)
Tok(pre, kind, n, name) == [pre |-> pre, kind |-> kind, n |-> n, name |-> name]
Name(pre, name) == << Tok(pre, "name", 0, name) >>      \* e.g. "bg-stroke-default"
Hairline(pre)   == << Tok(pre, "px", 0, "px") >>        \* "h-px", "w-px"
Bracket(pre, n) == << Tok(pre, "bracket", n, "") >>     \* "h-[2px]"
Bare(pre, n)    == << Tok(pre, "num", n, "") >>         \* "h-2"

\* ------------------------------------------------------------------------
\* src/design-presets.ts
\* ------------------------------------------------------------------------
StatusKeys == {"linked", "invite_pending", "manual", "default"}
LineKeys   == {"thickness", "colorClass"}
AnchorKeys == {"coupleInsetPx", "verticalGapPx"}
GroupKeys  == {"statusColors", "coupleLine", "trunk", "siblingBus", "drop", "anchors"}
LineGroups == {"coupleLine", "trunk", "siblingBus", "drop"}

KeysOf(group) ==
    IF group = "statusColors" THEN StatusKeys
    ELSE IF group = "anchors" THEN AnchorKeys
    ELSE LineKeys

baseStatusColors ==
    [ linked         |-> Name("bg-", "stroke-default"),
      invite_pending |-> Name("bg-", "stroke-default"),
      manual         |-> Name("bg-", "stroke-default"),
      default        |-> Name("bg-", "stroke-default") ]

defaultPreset ==
    [ statusColors |-> baseStatusColors,
      coupleLine   |-> [thickness |-> Hairline("h-"), colorClass |-> Name("bg-", "stroke-default")],
      trunk        |-> [thickness |-> Hairline("w-"), colorClass |-> Name("bg-", "stroke-default")],
      siblingBus   |-> [thickness |-> Hairline("h-"), colorClass |-> Name("bg-", "stroke-default")],
      drop         |-> [thickness |-> Hairline("w-"), colorClass |-> Name("bg-", "stroke-default")],
      anchors      |-> [coupleInsetPx |-> 0, verticalGapPx |-> 24] ]

compactPreset ==
    Spread(defaultPreset,
      [ coupleLine |-> Spread(defaultPreset.coupleLine, [thickness |-> Bracket("h-", 2)]),
        trunk      |-> Spread(defaultPreset.trunk,      [thickness |-> Bracket("w-", 2)]),
        siblingBus |-> Spread(defaultPreset.siblingBus, [thickness |-> Bracket("h-", 2)]),
        drop       |-> Spread(defaultPreset.drop,       [thickness |-> Bracket("w-", 2)]),
        anchors    |-> Spread(defaultPreset.anchors,    [verticalGapPx |-> 20]) ])

contrastPreset ==
    Spread(defaultPreset,
      [ statusColors |->
          [ linked         |-> Name("bg-", "copy-primary"),
            invite_pending |-> Name("bg-", "amber-500"),
            manual         |-> Name("bg-", "stroke-default"),
            default        |-> Name("bg-", "copy-primary") ],
        coupleLine |-> Spread(defaultPreset.coupleLine,
                         [colorClass |-> Name("bg-", "copy-primary"), thickness |-> Bracket("h-", 2)]),
        trunk      |-> Spread(defaultPreset.trunk,
                         [colorClass |-> Name("bg-", "copy-primary"), thickness |-> Bracket("w-", 2)]),
        siblingBus |-> Spread(defaultPreset.siblingBus,
                         [colorClass |-> Name("bg-", "copy-primary"), thickness |-> Bracket("h-", 2)]),
        drop       |-> Spread(defaultPreset.drop,
                         [colorClass |-> Name("bg-", "copy-primary"), thickness |-> Bracket("w-", 2)]) ])

familyTreePresets ==
    [ default |-> defaultPreset, compact |-> compactPreset, contrast |-> contrastPreset ]

PresetNames == DOMAIN familyTreePresets

\* The object {}; an absent override is modelled by it (spreading undefined adds no key,
\* and override?.<group> of undefined is undefined).
EmptyObject == [k \in {} |-> Undefined]

\* override?.<group> ?? {}
OverrideGroup(override, group) ==
    IF group \in DOMAIN override THEN override[group] ELSE EmptyObject

\* Names every object literal inherits from Object.prototype.
ObjectPrototypeKeys == {"constructor", "toString", "__proto__"}

\* base.<group>: undefined when base has no such property; spreading undefined adds no key.
GroupOf(base, group) == IF group \in DOMAIN base THEN base[group] ELSE EmptyObject

\* A mutant of MergeGroup: the override's group replaces the preset's (deep replace).
MergeGroupReplacing(base, override, group) ==
    IF group \in DOMAIN override THEN override[group] ELSE base[group]

\* { ...base.<group>, ...(override?.<group> ?? {}) }
MergeGroup(base, override, group) ==
    Spread(GroupOf(base, group), OverrideGroup(override, group))

\* familyTreePresets[preset] ?? familyTreePresets.default (line 98).  The property read
\* follows the prototype chain: for a name of Object.prototype it yields that member, which
\* is not nullish, so ?? keeps it; the member has no own enumerable key and none of the
\* config's groups.
BaseOf(table, preset) ==
    IF preset \in DOMAIN table THEN table[preset]
    ELSE IF preset \in ObjectPrototypeKeys THEN EmptyObject
    ELSE table.default

\* getFamilyTreeConfig on the table `table`.
ResolveWith(table, preset, override) ==
    LET base == BaseOf(table, preset)
    IN  Spread(Spread(base, override), [ g \in GroupKeys |-> MergeGroup(base, override, g) ])

\* A mutant of TableAfterResolve: Object.assign(base, override) in place of the spreads.
TableAfterAssign(table, preset, override) ==
    IF preset \in DOMAIN table
    THEN [ table EXCEPT ![preset] = ResolveWith(table, preset, override) ]
    ELSE [ table EXCEPT !.default = ResolveWith(table, preset, override) ]

\* familyTreePresets after a call: lines 98-126 build the result from object literals and
\* spreads, and assign to no property of the table or of a preset.
TableAfterResolve(table, preset, override) == table

getFamilyTreeConfig(preset, override) == ResolveWith(presetTable, preset, override)

\* ------------------------------------------------------------------------
\* src/components/family-tree.tsx: colour and thickness of a stroke
\* ------------------------------------------------------------------------
ColorPrefixes == {"bg-", "text-", "stroke-"}

\* getComputedStyle(probe) of a hidden div carrying the one class `token`.
ComputedStyle(token) ==
    LET rgb == IF theme = "light" THEN "rgb(" \o token.name \o ")"
               ELSE "rgb(" \o token.name \o "/dark)"
    IN  [ backgroundColor |-> IF token.pre = "bg-" THEN rgb ELSE "rgba(0, 0, 0, 0)",
          color           |-> IF token.pre = "text-" THEN rgb ELSE "rgb(0, 0, 0)",
          stroke          |-> IF token.pre = "stroke-" THEN rgb ELSE "none" ]

\* className.split(" ").find(startsWith "bg-" | "text-" | "stroke-"): index of the first
\* such token, 0 when there is none.
FirstColorToken(className) ==
    LET hits == { i \in DOMAIN className : className[i].pre \in ColorPrefixes }
    IN  IF hits = {} THEN 0 ELSE Min(hits)

\* The colour the probe yields for a token (lines 55-66).
ProbeColor(token) ==
    LET computed == ComputedStyle(token)
    IN  IF token.pre = "text-" THEN computed.color
        ELSE IF token.pre = "stroke-"
             THEN (IF computed.stroke # "" THEN computed.stroke ELSE computed.color)
        ELSE computed.backgroundColor

\* A mutant of resolveColorFromClass: the cache is not read, every call probes.
resolveColorUncached(className, cache) ==
    LET i == FirstColorToken(className)
    IN  IF i = 0 THEN "currentColor"
        ELSE IF ~hasWindow THEN "currentColor"
        ELSE ProbeColor(className[i])

\* resolveColorFromClass (lines 47-69), reading the cache `cache` (a function token ->
\* colour): no token, a cached colour (a truthy one), no window, the probe.
resolveColorFromClass(className, cache) ==
    LET i == FirstColorToken(className)
    IN  IF i = 0 THEN "currentColor"
        ELSE IF className[i] \in DOMAIN cache /\ cache[className[i]] # "" THEN cache[className[i]]
        ELSE IF ~hasWindow THEN "currentColor"
        ELSE ProbeColor(className[i])

\* The cache after resolveColorFromClass(className): a probed token is stored.
CacheAfter(className, cache) ==
    LET i == FirstColorToken(className)
    IN  IF i = 0 THEN cache
        ELSE IF className[i] \in DOMAIN cache /\ cache[className[i]] # "" THEN cache
        ELSE IF ~hasWindow THEN cache
        ELSE (className[i] :> ProbeColor(className[i])) @@ cache

\* The utility prefixes of the thickness tokens, and the prefixes whose text ends in one of
\* them ("max-w-", "min-h-", "shadow-"): the two regular expressions of parseThicknessPx
\* are not anchored, so /(?:h|w)-.../ also matches inside such a token.
ThicknessPrefixes  == {"h-", "w-"}
EndingInThickness  == ThicknessPrefixes \cup {"max-w-", "min-h-", "shadow-"}

\* One token of parseThicknessPx (lines 74-78): the pixel count it yields, or -1 when it
\* matches nothing.  The hairline test is an equality with "h-px" / "w-px".
ThicknessOfToken(token) ==
    IF token.pre \in ThicknessPrefixes /\ token.kind = "px" THEN 1
    ELSE IF token.pre \in EndingInThickness /\ token.kind = "bracket" THEN token.n
    ELSE IF token.pre \in EndingInThickness /\ token.kind = "num" THEN token.n
    ELSE -1

parseThicknessPx(value) ==
    LET hits == { i \in DOMAIN value : ThicknessOfToken(value[i]) # -1 }
    IN  IF hits = {} THEN 1 ELSE ThicknessOfToken(value[Min(hits)])

\* The class whose colour strokes a line of style lineStyle for a member status:
\* statusClass || lineStyle.colorClass (an empty class string is falsy).
StrokeClass(config, lineStyle, status) ==
    LET statusClass ==
            IF status # Undefined
            THEN (IF status \in DOMAIN config.statusColors
                  THEN config.statusColors[status]
                  ELSE config.statusColors.default)
            ELSE config.statusColors.default
    IN  IF statusClass # << >> THEN statusClass ELSE lineStyle.colorClass

resolveLineStroke(config, lineStyle, status, cache) ==
    resolveColorFromClass(StrokeClass(config, lineStyle, status), cache)

resolveLineWidth(lineStyle) == parseThicknessPx(lineStyle.thickness)

\* ------------------------------------------------------------------------
\* src/components/family-tree.tsx: computeLineSegments
\* ------------------------------------------------------------------------
\* container.getBoundingClientRect(): the container's place in the viewport.
ContainerLeft == 16
ContainerTop  == 120

\* element.getBoundingClientRect(): an element is a card [nodeId, box], box being its
\* place in the container's content; the viewport sees it moved by the container's
\* place and by how far the content is scrolled.
getBoundingClientRect(element, scr) ==
    [ left   |-> ContainerLeft + element.box.left - scr.left,
      top    |-> ContainerTop + element.box.top - scr.top,
      width  |-> element.box.width,
      height |-> element.box.height ]

\* A mutant of RelativeRect: the scroll offset of the container is not added back.
RelativeRectInViewport(element, scr) ==
    LET rect == getBoundingClientRect(element, scr)
        left == rect.left - ContainerLeft
        top  == rect.top - ContainerTop
    IN  [ left |-> left, top |-> top, width |-> rect.width, height |-> rect.height,
          right |-> left + rect.width, bottom |-> top + rect.height ]

\* One step of the measuring loop (lines 132-142): the RelativeRect of an element.
RelativeRect(element, scr) ==
    LET rect == getBoundingClientRect(element, scr)
        left == rect.left - ContainerLeft + scr.left
        top  == rect.top - ContainerTop + scr.top
    IN  [ left |-> left, top |-> top, width |-> rect.width, height |-> rect.height,
          right |-> left + rect.width, bottom |-> top + rect.height ]

\* container.scrollWidth / scrollHeight: the extent of the content.
ScrollSize(elements) ==
    [ width  |-> Max({0} \cup { elements[i].box.left + elements[i].box.width : i \in DOMAIN elements }),
      height |-> Max({0} \cup { elements[i].box.top + elements[i].box.height : i \in DOMAIN elements }) ]

\* The rects Map after the loop over elements (lines 127-143): a later element with the
\* same id replaces an earlier one, an element with an empty id is skipped.
RECURSIVE MeasureRects(_, _)
MeasureRects(elements, scr) ==
    IF elements = << >> THEN EmptyObject
    ELSE LET before  == MeasureRects(SubSeq(elements, 1, Len(elements) - 1), scr)
             element == elements[Len(elements)]
         IN  IF element.nodeId = "" THEN before
             ELSE (element.nodeId :> RelativeRect(element, scr)) @@ before

\* Anchor points, in half pixels.
topCenter(rect) == [ x |-> 2 * rect.left + rect.width, y |-> 2 * rect.top ]

sideInner(rect, side, coupleInset) ==
    [ x |-> IF side = "left" THEN 2 * (rect.left + coupleInset) ELSE 2 * (rect.right - coupleInset),
      y |-> 2 * rect.top + rect.height ]

\* A mutant of unitStatus: the status of the last member that has one.
unitStatusLast(members) ==
    LET hits == { i \in DOMAIN members : members[i].status # Undefined }
    IN  IF hits = {} THEN Undefined ELSE members[Max(hits)].status

\* members.find((member) => member.status)?.status
unitStatus(members) ==
    LET hits == { i \in DOMAIN members : members[i].status # Undefined }
    IN  IF hits = {} THEN Undefined ELSE members[Min(hits)].status

\* One call of addLine: its arguments.  d is the path "M x1 y1 L x2 y2" as <<x1, y1, x2, y2>>.
Call(id, d, lineStyle, status) == [ id |-> id, d |-> d, lineStyle |-> lineStyle, status |-> status ]

\* The segment addLine pushes for a call (lines 172-177).
addLine(call, config, cache) ==
    [ id |-> call.id, d |-> call.d,
      stroke |-> resolveLineStroke(config, call.lineStyle, call.status, cache),
      strokeWidth |-> resolveLineWidth(call.lineStyle) ]

\* A mutant of Entries: a member without a rectangle gets an empty one at the origin.
RECURSIVE EntriesDefaulting(_, _)
EntriesDefaulting(members, rects) ==
    IF members = << >> THEN << >>
    ELSE LET member == Head(members)
             none   == [ left |-> 0, top |-> 0, width |-> 0, height |-> 0, right |-> 0, bottom |-> 0 ]
         IN  << [ member |-> member,
                  rect |-> IF member.id \in DOMAIN rects THEN rects[member.id] ELSE none ] >>
             \o EntriesDefaulting(Tail(members), rects)

\* members.map(rects.get).filter(Boolean): the members that have a rectangle, in order.
RECURSIVE Entries(_, _)
Entries(members, rects) ==
    IF members = << >> THEN << >>
    ELSE LET member == Head(members)
         IN  IF member.id \in DOMAIN rects
             THEN << [member |-> member, rect |-> rects[member.id]] >> \o Entries(Tail(members), rects)
             ELSE Entries(Tail(members), rects)

\* [...entries].sort((a, b) => a.rect.left - b.rect.left): stable, ascending by left.
RECURSIVE InsertByLeft(_, _)
InsertByLeft(sorted, entry) ==
    IF sorted = << >> THEN << entry >>
    ELSE IF entry.rect.left < Head(sorted).rect.left THEN << entry >> \o sorted
    ELSE << Head(sorted) >> \o InsertByLeft(Tail(sorted), entry)

\* A mutant of SortByLeft: the entries stay in list order.
SortByLeftUnsorted(entries) == entries

RECURSIVE SortByLeft(_)
SortByLeft(entries) ==
    IF entries = << >> THEN << >>
    ELSE InsertByLeft(SortByLeft(SubSeq(entries, 1, Len(entries) - 1)), entries[Len(entries)])

\* Lines 199-213: the couple line of a unit with two or more measured parents.
CoupleLine(unitId, parentMembers, sortedParentEntries, config) ==
    LET leftAnchor  == sideInner(sortedParentEntries[1].rect, "right", config.anchors.coupleInsetPx)
        rightAnchor == sideInner(sortedParentEntries[2].rect, "left", config.anchors.coupleInsetPx)
    IN  Call(unitId \o "-couple", << leftAnchor.x, leftAnchor.y, rightAnchor.x, rightAnchor.y >>,
             config.coupleLine, unitStatus(parentMembers))

\* A mutant of Junction: a single parent's junction is at the top of its card.
JunctionAtTop(sortedParentEntries, config) ==
    LET parentRect == sortedParentEntries[1].rect
    IN  [ x |-> 2 * parentRect.left + parentRect.width, y |-> 2 * parentRect.top ]

\* Lines 197-220: the junction of a unit that has at least one measured parent.
Junction(sortedParentEntries, config) ==
    IF Len(sortedParentEntries) > 1
    THEN LET leftAnchor  == sideInner(sortedParentEntries[1].rect, "right", config.anchors.coupleInsetPx)
             rightAnchor == sideInner(sortedParentEntries[2].rect, "left", config.anchors.coupleInsetPx)
         IN  [ x |-> (leftAnchor.x + rightAnchor.x) \div 2, y |-> leftAnchor.y ]
    ELSE LET parentRect == sortedParentEntries[1].rect
         IN  [ x |-> 2 * parentRect.left + parentRect.width, y |-> 2 * parentRect.bottom ]

\* A mutant of Bar: the bus spans the children only and does not reach the junction.
BarOverChildren(junction, childEntries, config) ==
    LET childXs   == { 2 * childEntries[i].rect.left + childEntries[i].rect.width : i \in DOMAIN childEntries }
        childTopY == Min({ 2 * childEntries[i].rect.top : i \in DOMAIN childEntries })
    IN  [ y     |-> childTopY - 2 * config.anchors.verticalGapPx,
          left  |-> Min(childXs),
          right |-> Max(childXs) ]

\* Lines 233-237: where the sibling bus lies.
Bar(junction, childEntries, config) ==
    LET childXs   == { topCenter(childEntries[i].rect).x : i \in DOMAIN childEntries }
        childTopY == Min({ topCenter(childEntries[i].rect).y : i \in DOMAIN childEntries })
    IN  [ y     |-> childTopY - 2 * config.anchors.verticalGapPx,
          left  |-> Min(childXs \cup {junction.x}),
          right |-> Max(childXs \cup {junction.x}) ]

\* A mutant of ChildLines: the trunk is pushed as soon as there is a junction, down by the
\* vertical gap, before the children are looked at.
ChildLinesTrunkFirst(unitId, parentMembers, childMembers, junction, rects, config) ==
    << Call(unitId \o "-trunk",
            << junction.x, junction.y, junction.x, junction.y + 2 * config.anchors.verticalGapPx >>,
            config.trunk, unitStatus(parentMembers)) >>

\* A mutant of ChildLines: every drop takes the status of the unit.
ChildLinesUnitStatus(unitId, parentMembers, childMembers, junction, rects, config) ==
    LET childEntries == Entries(childMembers, rects)
    IN  IF childMembers = << >> \/ childEntries = << >> THEN << >>
        ELSE LET bar == Bar(junction, childEntries, config)
             IN  << Call(unitId \o "-trunk", << junction.x, junction.y, junction.x, bar.y >>,
                         config.trunk, unitStatus(parentMembers)),
                    Call(unitId \o "-bar", << bar.left, bar.y, bar.right, bar.y >>,
                         config.siblingBus, unitStatus(parentMembers)) >>
                 \o [ i \in DOMAIN childEntries |->
                        LET entry  == childEntries[i]
                            anchor == topCenter(entry.rect)
                        IN  Call(unitId \o "-drop-" \o entry.member.id,
                                 << anchor.x, bar.y, anchor.x, anchor.y >>,
                                 config.drop, unitStatus(parentMembers)) ]

\* Lines 222-259: trunk, bus and drops.
ChildLines(unitId, parentMembers, childMembers, junction, rects, config) ==
    LET childEntries == Entries(childMembers, rects)
    IN  IF childMembers = << >> \/ childEntries = << >> THEN << >>
        ELSE LET bar == Bar(junction, childEntries, config)
             IN  << Call(unitId \o "-trunk", << junction.x, junction.y, junction.x, bar.y >>,
                         config.trunk, unitStatus(parentMembers)),
                    Call(unitId \o "-bar", << bar.left, bar.y, bar.right, bar.y >>,
                         config.siblingBus, unitStatus(parentMembers)) >>
                 \o [ i \in DOMAIN childEntries |->
                        LET entry  == childEntries[i]
                            anchor == topCenter(entry.rect)
                        IN  Call(unitId \o "-drop-" \o entry.member.id,
                                 << anchor.x, bar.y, anchor.x, anchor.y >>,
                                 config.drop, entry.member.status) ]

\* drawParentUnit: the addLine calls it makes, in order.
drawParentUnit(unitId, parentMembers, childMembers, rects, config) ==
    LET sortedParentEntries == SortByLeft(Entries(parentMembers, rects))
    IN  IF parentMembers = << >> \/ sortedParentEntries = << >> THEN << >>
        ELSE (IF Len(sortedParentEntries) > 1
              THEN << CoupleLine(unitId, parentMembers, sortedParentEntries, config) >>
              ELSE << >>)
             \o ChildLines(unitId, parentMembers, childMembers,
                           Junction(sortedParentEntries, config), rects, config)

\* rootMember.parents ?? [] and the like: an absent array field reads as [].
OrEmpty(member, field) == IF field \in DOMAIN member THEN member[field] ELSE << >>

\* The member without its relationship arrays, as the unit lists carry it.
Self(member) == [ id |-> member.id, status |-> member.status ]

\* A mutant of ParentsUnit: the child set is the siblings, without the root.
ParentsUnitSiblingsOnly(root, rects, config) ==
    IF Len(OrEmpty(root, "parents")) > 0
    THEN drawParentUnit("parents", root.parents, OrEmpty(root, "siblings"), rects, config)
    ELSE << >>

\* Lines 262-266: the parents unit.
ParentsUnit(root, rects, config) ==
    IF Len(OrEmpty(root, "parents")) > 0
    THEN drawParentUnit("parents", root.parents, OrEmpty(root, "siblings") \o << Self(root) >>,
                        rects, config)
    ELSE << >>

\* A mutant of RootUnit: a root with a spouse and no children draws nothing.
RootUnitNeedsChildren(root, rects, config) ==
    IF Len(OrEmpty(root, "children")) = 0 THEN << >>
    ELSE IF "spouse" \in DOMAIN root
    THEN drawParentUnit("root-couple", << Self(root), root.spouse >>, root.children, rects, config)
    ELSE drawParentUnit("root-single", << Self(root) >>, root.children, rects, config)

\* Lines 268-276: the root's own unit.
RootUnit(root, rects, config) ==
    IF "spouse" \in DOMAIN root
    THEN drawParentUnit("root-couple", << Self(root), root.spouse >>, OrEmpty(root, "children"),
                        rects, config)
    ELSE IF Len(OrEmpty(root, "children")) > 0
    THEN drawParentUnit("root-single", << Self(root) >>, OrEmpty(root, "children"),
                        rects, config)
    ELSE << >>

\* Every addLine call of one run of computeLineSegments, in order.
Calls(root, elements, scr, config) ==
    LET rects == MeasureRects(elements, scr)
    IN  ParentsUnit(root, rects, config) \o RootUnit(root, rects, config)

\* colorCache after the strokes of calls 1..n were resolved.
RECURSIVE CacheAfterCalls(_, _, _, _)
CacheAfterCalls(calls, n, config, cache) ==
    IF n = 0 THEN cache
    ELSE CacheAfter(StrokeClass(config, calls[n].lineStyle, calls[n].status),
                    CacheAfterCalls(calls, n - 1, config, cache))

\* The list computeLineSegments hands to setLineSegments.
Segments(root, elements, scr, config, cache) ==
    LET calls == Calls(root, elements, scr, config)
    IN  [ i \in DOMAIN calls |-> addLine(calls[i], config, CacheAfterCalls(calls, i - 1, config, cache)) ]

\* ------------------------------------------------------------------------
\* Inputs of the geometry engine: trees and card layouts
\* ------------------------------------------------------------------------
MaxCol        == 2    \* cards sit in columns 0..MaxCol
MaxChildren   == 2    \* children of the root
MaxUnmeasured == 2    \* members of the tree that have no card under the container
ColStep       == 9    \* pixels between two columns
RowStep       == 40   \* pixels between two generations
CardWidth     == 5
CardHeight    == 3
TopJitter     == 2    \* how much lower a card may sit than its row

Cols == 0 .. MaxCol

\* The status each member of the input trees carries.
StatusOf(id) ==
    CASE id = "p2" -> "linked"
      [] id = "c1" -> "invite_pending"
      [] id = "s1" -> "manual"
      [] OTHER     -> Undefined

Member(id) == [ id |-> id, status |-> StatusOf(id) ]
Members(prefix, n) == [ i \in 1 .. n |-> Member(prefix \o ToString(i)) ]

Box(col, row, jitter) ==
    [ left |-> col * ColStep, top |-> row * RowStep + jitter, width |-> CardWidth, height |-> CardHeight ]

\* The FamilyMember passed as rootMember; an absent spouse is an absent field.
Tree(np, ns, withSpouse, nc) ==
    LET base == [ id |-> "root", status |-> StatusOf("root"),
                  parents |-> Members("p", np), siblings |-> Members("s", ns),
                  children |-> Members("c", nc) ]
    IN  IF withSpouse THEN Spread(base, [ spouse |-> Member("sp") ]) ELSE base

\* The ids of the cards the component renders for a tree, in document order (lines 372-488):
\* parents, left siblings, root, spouse, right siblings, children.
CardOrder(root) ==
    LET ids(members) == [ i \in DOMAIN members |-> members[i].id ]
        sibs     == ids(root.siblings)
        leftCount == (Len(sibs) + 1) \div 2
    IN  ids(root.parents) \o SubSeq(sibs, 1, leftCount) \o << root.id >>
        \o (IF "spouse" \in DOMAIN root THEN << root.spouse.id >> ELSE << >>)
        \o SubSeq(sibs, leftCount + 1, Len(sibs)) \o ids(root.children)

\* The cards found under the container: those of CardOrder that are not in `hidden`.
Cards(root, boxes, hidden) ==
    LET order == CardOrder(root)
        Shown(id) == id \notin hidden
        shown == SelectSeq(order, Shown)
    IN  [ i \in DOMAIN shown |-> [ nodeId |-> shown[i], box |-> boxes[shown[i]] ] ]

\* The index of the member id prefix-i among 1..n, 0 when id is none of them.
IndexOf(id, prefix, n) ==
    LET hits == { i \in 1 .. n : id = prefix \o ToString(i) }
    IN  IF hits = {} THEN 0 ELSE CHOOSE i \in hits : TRUE

\* An input of the geometry engine: a tree, and the box of the card of each of its members.
\* pc, sc, cc: the columns of the parents, siblings and children; sj, cj: how much lower
\* than its row each sibling and child sits; sp: the spouse's column.
Input(np, ns, withSpouse, nc, pc, sc, sj, sp, cc, cj) ==
    LET root == Tree(np, ns, withSpouse, nc)
    IN  [ root  |-> root,
          boxes |-> [ id \in Range(CardOrder(root)) |->
                        IF id = "root" THEN Box(1, 1, 0)
                        ELSE IF id = "sp" THEN Box(sp, 1, 0)
                        ELSE IF IndexOf(id, "p", np) > 0 THEN Box(pc[IndexOf(id, "p", np)], 0, 0)
                        ELSE IF IndexOf(id, "s", ns) > 0
                             THEN Box(sc[IndexOf(id, "s", ns)], 1, sj[IndexOf(id, "s", ns)])
                        ELSE Box(cc[IndexOf(id, "c", nc)], 2, cj[IndexOf(id, "c", nc)]) ] ]

\* Layouts that vary the parents unit: up to two parents and at most one sibling in any
\* columns, the sibling possibly lower than the root; the root's own unit is absent, or a
\* spouse and one child.
ParentsFocus ==
    UNION { { Input(np, ns, own, IF own THEN 1 ELSE 0, pc, sc, sj, 2, << 1 >>, << 0 >>) :
                pc \in [1 .. np -> Cols], sc \in [1 .. ns -> Cols], sj \in [1 .. ns -> {0, TopJitter}] } :
            np \in {0, 1, 2}, ns \in {0, 1}, own \in BOOLEAN }

\* Layouts that vary the root's own unit: a spouse in any column or none, up to MaxChildren
\* children in any columns and of uneven height; the parents unit is absent, or two parents.
RootFocus ==
    UNION { { Input(IF par THEN 2 ELSE 0, 0, sp # -1, nc, << 0, 2 >>, << >>, << >>, sp, cc, cj) :
                cc \in [1 .. nc -> Cols], cj \in [1 .. nc -> {0, TopJitter}] } :
            par \in BOOLEAN, sp \in {-1} \cup Cols, nc \in 0 .. MaxChildren }

\* The surroundings of a geometry run: the props that fix connectorConfig and how far the
\* container is scrolled.  Either the default preset in an unscrolled container, or the
\* compact preset with the couple line inset, in a scrolled one.
EnvChoices ==
    { [ preset |-> "default", override |-> EmptyObject, scroll |-> [ left |-> 0, top |-> 0 ] ],
      [ preset |-> "compact", override |-> [ anchors |-> [ coupleInsetPx |-> 2 ] ],
        scroll |-> [ left |-> 7, top |-> 30 ] ] }

NoStep == [ kind |-> "none", computes |-> 0, signals |-> 0, cleanup |-> FALSE ]

\* JavaScript's null where an object is expected (selectedProfile), and where a string is.
NoProfile == [ null |-> TRUE ]
JsNull    == "null"

\* value.trim(): the texts typed here are "", a blank " ", or a word without blanks around.
Trim(value) == IF value = " " THEN "" ELSE value


\* The state AddMemberDialog's useState calls start with (add-member-dialog.tsx 62-75).
InitialDialog(searchEnabled) ==
    [ mode            |-> IF searchEnabled THEN "search" ELSE "manual",
      searchQuery     |-> "",
      manualName      |-> "",
      manualBirthday  |-> "",
      selectedProfile |-> NoProfile,
      inviteFirstName |-> "",
      inviteLastName  |-> "",
      inviteEmail     |-> "",
      isSubmitting    |-> FALSE,
      isSearching     |-> FALSE,
      searchResults   |-> << >>,
      debouncedQuery  |-> "" ]

NoDialogStep == [ kind |-> "none" ]

\* A step of the user or the host that calls nothing outside the dialog.
UserStep == [ kind |-> "user" ]

\* The add-member flow before anything happened, for a host that passes these props.
InitDialogWith(canEdit, onAddMember, searchProfiles, rootId) ==
    /\ hostProps = [ canEdit |-> canEdit, onAddMember |-> onAddMember,
                     searchProfiles |-> searchProfiles ]
    /\ dialogState = [ isOpen |-> FALSE, relation |-> "parent", parentId |-> rootId ]
    /\ isSubmitting = FALSE
    /\ dialog = InitialDialog(searchProfiles)
    /\ searches = {}
    /\ submissions = {}
    /\ dialogLast = NoDialogStep

\* The module src/design-presets.ts is loaded and nothing has called it; the host lets
\* nobody edit.
InitModules ==
    /\ presetTable = familyTreePresets
    /\ resolverLog = << >>
    /\ InitDialogWith(FALSE, FALSE, FALSE, "root")

\* The same in a browser, under the light style sheet, the helpers not called directly.
InitBeside ==
    /\ InitModules
    /\ hasWindow = TRUE
    /\ theme = "light"
    /\ utilLog = << >>

\* ------------------------------------------------------------------------
\* The geometry engine on its own: computeLineSegments applied to every input
\* ------------------------------------------------------------------------
\* The first render is committed to the DOM; its layout effect is about to run.
Init ==
    /\ InitBeside
    /\ \E input \in ParentsFocus \cup RootFocus :
       \E hidden \in { h \in SUBSET Range(CardOrder(input.root)) : Cardinality(h) <= MaxUnmeasured } :
          /\ rootMember = input.root
          /\ nodeElements = Cards(input.root, input.boxes, hidden)
    /\ \E env \in EnvChoices :
          /\ designPreset = env.preset
          /\ designOverrides = env.override
          /\ connectorConfig = getFamilyTreeConfig(env.preset, env.override)
          /\ scroll = env.scroll
    /\ lineSegments = << >>
    /\ canvasSize = [ width |-> 0, height |-> 0 ]
    /\ colorCache = EmptyObject
    /\ phase = "rendering"
    /\ effectProps = EmptyObject
    /\ frameId = 0
    /\ listeners = {}
    /\ rafQueue = {}
    /\ roPending = FALSE
    /\ passivePending = FALSE
    /\ signalsSinceFrame = 0
    /\ cleanupSinceSignal = FALSE
    /\ last = NoStep
    /\ owed = TRUE

\* What one run of computeLineSegments (lines 119-279) does, for the rootMember and the
\* config its closure holds, on the cards and the scroll offset it finds.
computeLineSegments(root, config, elements, scr) ==
    /\ canvasSize' = ScrollSize(elements)
    /\ lineSegments' = Segments(root, elements, scr, config, colorCache)
    /\ colorCache' = LET calls == Calls(root, elements, scr, config)
                     IN  CacheAfterCalls(calls, Len(calls), config, colorCache)

\* The record of a step in `last`.
Step(kind, computes) ==
    [ kind |-> kind, computes |-> computes,
      signals |-> signalsSinceFrame, cleanup |-> cleanupSinceSignal ]

\* useLayoutEffect(() => computeLineSegments(), [computeLineSegments]) (lines 281-283),
\* run as the commit ends; the useEffect of lines 285-305 is then due.
LayoutEffect ==
    /\ phase = "rendering"
    /\ computeLineSegments(rootMember, connectorConfig, nodeElements, scroll)
    /\ phase' = "committed"
    /\ passivePending' = TRUE
    /\ last' = Step("layout", 1)
    /\ owed' = FALSE
    /\ UNCHANGED << besideTree, propVars, domVars, effectProps, frameId, listeners, rafQueue, roPending,
                    signalsSinceFrame, cleanupSinceSignal >>

Next == LayoutEffect

Spec == Init /\ [][Next]_vars

\* ------------------------------------------------------------------------
\* The geometry engine on trees that list a member more than once
\* ------------------------------------------------------------------------
\* Trees in which a member id occurs twice: a child listed twice, the root listed among
\* its own siblings, a parent listed twice, the spouse listed as a child.
RepeatedTrees ==
    { [ Tree(0, 0, TRUE, 2)  EXCEPT !.children = << Member("c1"), Member("c1") >> ],
      [ Tree(1, 1, FALSE, 0) EXCEPT !.siblings = << Member("root") >> ],
      [ Tree(2, 0, FALSE, 1) EXCEPT !.parents  = << Member("p1"), Member("p1") >> ],
      [ Tree(1, 0, TRUE, 1)  EXCEPT !.children = << Member("sp") >> ] }

\* The generation a card sits in: parents above, children below.
RowOf(root, i) ==
    IF i <= Len(root.parents) THEN 0
    ELSE IF i > Len(CardOrder(root)) - Len(root.children) THEN 2
    ELSE 1

\* One card per entry of the tree, also for an id that occurs twice; cols[i] is the column
\* of the i-th card in document order.
RepeatedCards(root, cols) ==
    [ i \in DOMAIN CardOrder(root) |->
        [ nodeId |-> CardOrder(root)[i], box |-> Box(cols[i], RowOf(root, i), 0) ] ]

InitRepeated ==
    /\ InitBeside
    /\ \E root \in RepeatedTrees :
       \E cols \in [ DOMAIN CardOrder(root) -> Cols ] :
          /\ rootMember = root
          /\ nodeElements = RepeatedCards(root, cols)
    /\ \E env \in EnvChoices :
          /\ designPreset = env.preset
          /\ designOverrides = env.override
          /\ connectorConfig = getFamilyTreeConfig(env.preset, env.override)
          /\ scroll = env.scroll
    /\ lineSegments = << >>
    /\ canvasSize = [ width |-> 0, height |-> 0 ]
    /\ colorCache = EmptyObject
    /\ phase = "rendering"
    /\ effectProps = EmptyObject
    /\ frameId = 0
    /\ listeners = {}
    /\ rafQueue = {}
    /\ roPending = FALSE
    /\ passivePending = FALSE
    /\ signalsSinceFrame = 0
    /\ cleanupSinceSignal = FALSE
    /\ last = NoStep
    /\ owed = TRUE

SpecRepeated == InitRepeated /\ [][Next]_vars

\* ------------------------------------------------------------------------
\* The geometry engine on units whose members differ in status
\* ------------------------------------------------------------------------
StrokeStatuses == { Undefined, "linked", "invite_pending", "manual" }

\* Two parents, the root, a spouse and a child; the parents, the root and the spouse carry
\* any status or none.
StrokeTree(p1, p2, own, sp) ==
    [ Tree(2, 0, TRUE, 1) EXCEPT !.parents = << [ id |-> "p1", status |-> p1 ],
                                                [ id |-> "p2", status |-> p2 ] >>,
                                 !.status  = own,
                                 !.spouse  = [ id |-> "sp", status |-> sp ] ]

\* The root, a spouse and two children; each of them carries any status or none.
DropTree(own, sp, c1, c2) ==
    [ Tree(0, 0, TRUE, 2) EXCEPT !.children = << [ id |-> "c1", status |-> c1 ],
                                                 [ id |-> "c2", status |-> c2 ] >>,
                                 !.status   = own,
                                 !.spouse   = [ id |-> "sp", status |-> sp ] ]

\* The trees with their cards: the statuses of the parents vary with the parents' cards in
\* either order, or they vary while the card of one member of a parent set is missing, or
\* the statuses of the children vary with the children's cards in either order and the
\* second child level or lower.
StrokeInputs ==
    { [ root     |-> StrokeTree(p1, p2, own, sp),
        elements |-> Cards(Tree(2, 0, TRUE, 1),
                           Input(2, 0, TRUE, 1, pc, << >>, << >>, 2, << 1 >>, << 0 >>).boxes, {}) ] :
        p1 \in StrokeStatuses, p2 \in StrokeStatuses, own \in StrokeStatuses,
        sp \in StrokeStatuses, pc \in { << 0, 2 >>, << 2, 0 >> } }
    \cup
    { [ root     |-> StrokeTree(p1, p2, own, sp),
        elements |-> Cards(Tree(2, 0, TRUE, 1),
                           Input(2, 0, TRUE, 1, << 0, 2 >>, << >>, << >>, 2, << 1 >>, << 0 >>).boxes,
                           {hidden}) ] :
        p1 \in StrokeStatuses, p2 \in StrokeStatuses, own \in {Undefined, "linked"},
        sp \in {Undefined, "manual"}, hidden \in {"p1", "p2", "root", "sp"} }
    \cup
    { [ root     |-> DropTree(own, sp, c1, c2),
        elements |-> Cards(Tree(0, 0, TRUE, 2),
                           Input(0, 0, TRUE, 2, << >>, << >>, << >>, 2, cc[1], << 0, cc[2] >>).boxes, {}) ] :
        own \in StrokeStatuses, sp \in {Undefined, "manual"}, c1 \in StrokeStatuses,
        c2 \in StrokeStatuses, cc \in { << 0, 2 >>, << 2, 0 >> } \X {0, TopJitter} }

\* designPreset and designOverrides: a preset whose status colours are all alike or the
\* contrast preset, as shipped or with one status colour replaced, one emptied, and the
\* couple line given a colour class of its own.
StrokeEnvs ==
    { [ preset |-> preset, override |-> override ] :
        preset \in {"default", "contrast"},
        override \in { EmptyObject,
                       [ statusColors |-> [ linked |-> Name("bg-", "emerald-500"),
                                            invite_pending |-> << >> ],
                         coupleLine   |-> [ colorClass |-> Name("text-", "line-own") ] ] } }

InitStroke ==
    /\ InitBeside
    /\ \E input \in StrokeInputs :
          /\ rootMember = input.root
          /\ nodeElements = input.elements
    /\ \E env \in StrokeEnvs :
          /\ designPreset = env.preset
          /\ designOverrides = env.override
          /\ connectorConfig = getFamilyTreeConfig(env.preset, env.override)
    /\ scroll = [ left |-> 0, top |-> 0 ]
    /\ lineSegments = << >>
    /\ canvasSize = [ width |-> 0, height |-> 0 ]
    /\ colorCache = EmptyObject
    /\ phase = "rendering"
    /\ effectProps = EmptyObject
    /\ frameId = 0
    /\ listeners = {}
    /\ rafQueue = {}
    /\ roPending = FALSE
    /\ passivePending = FALSE
    /\ signalsSinceFrame = 0
    /\ cleanupSinceSignal = FALSE
    /\ last = NoStep
    /\ owed = TRUE

SpecStroke == InitStroke /\ [][Next]_vars

\* ------------------------------------------------------------------------
\* resolveColorFromClass and parseThicknessPx called on any class string
\* ------------------------------------------------------------------------
MaxUtilCalls == 2    \* calls of the two helpers in one run

\* Class strings handed to resolveColorFromClass: the empty string, one colour token of each
\* kind, a token of another kind before a colour token, two colour tokens, no colour token.
ClassInputs ==
    { << >>,
      Name("bg-", "amber-500"),
      Name("text-", "copy-primary"),
      Name("stroke-", "line"),
      Name("flex-", "row") \o Name("bg-", "amber-500"),
      Name("text-", "copy-primary") \o Name("bg-", "amber-500"),
      Hairline("h-") }

\* Class strings handed to parseThicknessPx.
ThicknessInputs ==
    { << >>,
      Hairline("w-"),
      Bracket("h-", 3),
      Bare("w-", 4),
      Name("bg-", "amber-500") \o Bracket("w-", 2),
      Bare("h-", 2) \o Hairline("h-"),
      Hairline("max-w-") \o Bare("h-", 4),
      Bare("shadow-", 2) \o Hairline("h-"),
      Bracket("max-w-", 5) \o Bracket("h-", 3),
      Name("bg-", "amber-500") }

\* The module is loaded, in a browser or not; nothing is cached.
InitUtil ==
    /\ InitModules
    /\ hasWindow \in BOOLEAN
    /\ theme = "light"
    /\ utilLog = << >>
    /\ rootMember = Tree(0, 0, FALSE, 0)
    /\ designPreset = "default"
    /\ designOverrides = EmptyObject
    /\ connectorConfig = getFamilyTreeConfig("default", EmptyObject)
    /\ nodeElements = << >>
    /\ scroll = [ left |-> 0, top |-> 0 ]
    /\ lineSegments = << >>
    /\ canvasSize = [ width |-> 0, height |-> 0 ]
    /\ colorCache = EmptyObject
    /\ phase = "unmounted"
    /\ effectProps = EmptyObject
    /\ frameId = 0
    /\ listeners = {}
    /\ rafQueue = {}
    /\ roPending = FALSE
    /\ passivePending = FALSE
    /\ signalsSinceFrame = 0
    /\ cleanupSinceSignal = FALSE
    /\ last = NoStep
    /\ owed = FALSE

besideUtil == << rootMember, designPreset, designOverrides, connectorConfig, nodeElements, scroll,
                 lineSegments, canvasSize, phase, effectProps, frameId, listeners, rafQueue,
                 roPending, passivePending, signalsSinceFrame, cleanupSinceSignal, last, owed,
                 resolverVars, dialogVars >>

\* A call resolveColorFromClass(className).
CallResolveColor ==
    /\ Len(utilLog) < MaxUtilCalls
    /\ \E className \in ClassInputs :
         /\ utilLog' = Append(utilLog,
                              [ fn |-> "color", arg |-> className, theme |-> theme,
                                result |-> resolveColorFromClass(className, colorCache) ])
         /\ colorCache' = CacheAfter(className, colorCache)
    /\ UNCHANGED << hasWindow, theme, besideUtil >>

\* A call parseThicknessPx(value).
CallParseThickness ==
    /\ Len(utilLog) < MaxUtilCalls
    /\ \E value \in ThicknessInputs :
         utilLog' = Append(utilLog,
                           [ fn |-> "thickness", arg |-> value, theme |-> theme,
                             result |-> parseThicknessPx(value) ])
    /\ UNCHANGED << hasWindow, theme, colorCache, besideUtil >>

\* The page switches its style sheet: the classes compute to other colours from now on.
ThemeChanges ==
    /\ hasWindow
    /\ theme' = IF theme = "light" THEN "dark" ELSE "light"
    /\ UNCHANGED << hasWindow, utilLog, colorCache, besideUtil >>

NextUtil == CallResolveColor \/ CallParseThickness \/ ThemeChanges

SpecUtil == InitUtil /\ [][NextUtil]_vars

\* ------------------------------------------------------------------------
\* The scheduling effect (lines 285-305) in one mounted FamilyTree
\* ------------------------------------------------------------------------
MaxRafId   == 3    \* requestAnimationFrame hands out ids 1..MaxRafId, never one still in use
MaxSignals == 3    \* signalsSinceFrame counts up to MaxSignals

Sources == {"resizeObserver", "windowResize", "containerScroll"}

\* The trees the host renders one after the other, with the layout of their cards.
SchedInputs ==
    { Input(2, 1, TRUE, 1, << 0, 2 >>, << 0 >>, << 0 >>, 2, << 1 >>, << 0 >>),
      Input(1, 0, FALSE, 2, << 1 >>, << >>, << >>, 2, << 0, 2 >>, << 0, TopJitter >>) }

InputOf(root) == CHOOSE input \in SchedInputs : input.root = root

\* The component is about to be rendered for the first time.
InitSched ==
    /\ InitBeside
    /\ rootMember \in { input.root : input \in SchedInputs }
    /\ designPreset = "default"
    /\ designOverrides = EmptyObject
    /\ connectorConfig = getFamilyTreeConfig("default", EmptyObject)
    /\ nodeElements = << >>
    /\ scroll = [ left |-> 0, top |-> 0 ]
    /\ lineSegments = << >>
    /\ canvasSize = [ width |-> 0, height |-> 0 ]
    /\ colorCache = EmptyObject
    /\ phase = "unmounted"
    /\ effectProps = EmptyObject
    /\ frameId = 0
    /\ listeners = {}
    /\ rafQueue = {}
    /\ roPending = FALSE
    /\ passivePending = FALSE
    /\ signalsSinceFrame = 0
    /\ cleanupSinceSignal = FALSE
    /\ last = NoStep
    /\ owed = FALSE

\* requestAnimationFrame's return value: an id that is not in use.
FreeRafIds(queue, fid) == (1 .. MaxRafId) \ (queue \cup {fid})

\* A mutant of ScheduledQueue: the frame requested before is not cancelled.
ScheduledQueueNoCancel(queue, fid, id) == queue \cup {id}

\* A mutant of ScheduledQueue: a pending frame is cancelled, and a frame is requested only
\* when none was requested before.
ScheduledQueueCancelOnly(queue, fid, id) ==
    IF fid # 0 THEN queue \ {fid} ELSE queue \cup {id}

\* The frame queue after schedule() (lines 290-293): if (frameId) cancelAnimationFrame(frameId),
\* then the frame `id` is requested.  Cancelling an id that already fired changes nothing.
ScheduledQueue(queue, fid, id) == (IF fid # 0 THEN queue \ {fid} ELSE queue) \cup {id}

\* A mutant of CleanedQueue: the cleanup leaves the pending frame alone.
CleanedQueueNoCancel(queue, fid) == queue

\* The frame queue after the effect's cleanup (line 300).
CleanedQueue(queue, fid) == IF fid # 0 THEN queue \ {fid} ELSE queue

\* schedule() of the installed effect (lines 289-294).
schedule ==
    /\ FreeRafIds(rafQueue, frameId) # {}
    /\ LET id == Min(FreeRafIds(rafQueue, frameId))
       IN  /\ rafQueue' = ScheduledQueue(rafQueue, frameId, id)
           /\ frameId' = id
    /\ signalsSinceFrame' = IF signalsSinceFrame < MaxSignals THEN signalsSinceFrame + 1 ELSE signalsSinceFrame
    /\ cleanupSinceSignal' = FALSE
    /\ owed' = TRUE

Alive == phase \in {"committed", "mounted"}

\* The first commit: the cards are in the DOM and the layout effect (lines 281-283) runs;
\* the scheduling effect is due.
Mount ==
    /\ phase = "unmounted"
    /\ nodeElements' = Cards(rootMember, InputOf(rootMember).boxes, {})
    /\ computeLineSegments(rootMember, connectorConfig, nodeElements', scroll)
    /\ phase' = "committed"
    /\ passivePending' = TRUE
    /\ last' = Step("commit", 1)
    /\ owed' = FALSE
    /\ UNCHANGED << besideTree, propVars, scroll, effectProps, frameId, listeners, rafQueue, roPending,
                    signalsSinceFrame, cleanupSinceSignal >>

\* The host passes another rootMember: computeLineSegments is a new function, so the commit
\* runs the layout effect again and the scheduling effect is due for a re-run.  React
\* flushes a pending passive effect before it renders again.
Rerender ==
    /\ phase = "mounted"
    /\ ~passivePending
    /\ \E input \in SchedInputs :
         /\ input.root # rootMember
         /\ rootMember' = input.root
         /\ nodeElements' = Cards(input.root, input.boxes, {})
         /\ computeLineSegments(input.root, connectorConfig, nodeElements', scroll)
    /\ passivePending' = TRUE
    /\ last' = Step("commit", 1)
    /\ owed' = FALSE
    /\ UNCHANGED << besideTree, designPreset, designOverrides, connectorConfig, scroll, phase, effectProps,
                    frameId, listeners, rafQueue, roPending, signalsSinceFrame, cleanupSinceSignal >>

\* The scheduling effect runs (lines 285-305): the cleanup of the effect installed before,
\* if any (lines 299-304), then a new closure with frameId = null, a new ResizeObserver on
\* the container, which owes its first notification, and the two listeners.
FlushPassive ==
    /\ Alive
    /\ passivePending
    /\ rafQueue' = IF phase = "mounted" THEN CleanedQueue(rafQueue, frameId) ELSE rafQueue
    /\ cleanupSinceSignal' = IF phase = "mounted" THEN TRUE ELSE cleanupSinceSignal
    /\ frameId' = 0
    /\ listeners' = Sources
    /\ roPending' = TRUE
    /\ effectProps' = [ root |-> rootMember, config |-> connectorConfig ]
    /\ phase' = "mounted"
    /\ passivePending' = FALSE
    /\ last' = Step("effect", 0)
    /\ UNCHANGED << besideTree, propVars, domVars, drawVars, signalsSinceFrame, owed >>

\* The container's box changes: a connected ResizeObserver owes a notification.
ContainerResize ==
    /\ Alive
    /\ roPending' = IF "resizeObserver" \in listeners THEN TRUE ELSE roPending
    /\ owed' = TRUE
    /\ last' = Step("containerResize", 0)
    /\ UNCHANGED << besideTree, propVars, domVars, drawVars, phase, effectProps, frameId, listeners, rafQueue,
                    passivePending, signalsSinceFrame, cleanupSinceSignal >>

\* new ResizeObserver(schedule): the observer delivers what it owes.
ResizeObserverCallback ==
    /\ "resizeObserver" \in listeners
    /\ roPending
    /\ roPending' = FALSE
    /\ schedule
    /\ last' = Step("resizeObserver", 0)
    /\ UNCHANGED << besideTree, propVars, domVars, drawVars, phase, effectProps, listeners, passivePending >>

\* The window is resized; window.addEventListener("resize", schedule) hears it if installed.
WindowResize ==
    /\ phase \in {"committed", "mounted", "torndown"}
    /\ IF "windowResize" \in listeners
       THEN schedule
       ELSE /\ owed' = IF phase = "torndown" THEN owed ELSE TRUE
            /\ UNCHANGED << rafQueue, frameId, signalsSinceFrame, cleanupSinceSignal >>
    /\ last' = Step("windowResize", 0)
    /\ UNCHANGED << besideTree, propVars, domVars, drawVars, phase, effectProps, listeners, roPending,
                    passivePending >>

\* The container is scrolled; container.addEventListener("scroll", schedule) hears it if
\* installed.
ContainerScroll ==
    /\ Alive
    /\ scroll' = IF scroll.left = 0 THEN [ left |-> 7, top |-> 30 ] ELSE [ left |-> 0, top |-> 0 ]
    /\ IF "containerScroll" \in listeners
       THEN schedule
       ELSE /\ owed' = TRUE
            /\ UNCHANGED << rafQueue, frameId, signalsSinceFrame, cleanupSinceSignal >>
    /\ last' = Step("containerScroll", 0)
    /\ UNCHANGED << besideTree, propVars, nodeElements, drawVars, phase, effectProps, listeners, roPending,
                    passivePending >>

\* The browser runs the animation frame callbacks it holds (lines 291-293): each calls the
\* computeLineSegments of the effect that requested it, which returns at once when the
\* container is gone (line 121).
AnimationFrame ==
    /\ phase \in {"committed", "mounted", "torndown"}
    /\ IF rafQueue # {} /\ phase # "torndown"
       THEN /\ computeLineSegments(effectProps.root, effectProps.config, nodeElements, scroll)
            /\ owed' = FALSE
       ELSE UNCHANGED << drawVars, owed >>
    /\ rafQueue' = {}
    /\ signalsSinceFrame' = 0
    /\ cleanupSinceSignal' = FALSE
    /\ last' = Step("frame", Cardinality(rafQueue))
    /\ UNCHANGED << besideTree, propVars, domVars, phase, effectProps, frameId, listeners, roPending,
                    passivePending >>

\* The component is unmounted: the cleanup of the installed effect runs (lines 299-304) and
\* the cards leave the DOM.
Unmount ==
    /\ Alive
    /\ rafQueue' = CleanedQueue(rafQueue, frameId)
    /\ listeners' = {}
    /\ roPending' = FALSE
    /\ cleanupSinceSignal' = TRUE
    /\ passivePending' = FALSE
    /\ nodeElements' = << >>
    /\ phase' = "torndown"
    /\ last' = Step("unmount", 0)
    /\ UNCHANGED << besideTree, propVars, scroll, drawVars, effectProps, frameId, signalsSinceFrame, owed >>

NextSched ==
    \/ Mount
    \/ Rerender
    \/ FlushPassive
    \/ ContainerResize
    \/ ResizeObserverCallback
    \/ WindowResize
    \/ ContainerScroll
    \/ AnimationFrame
    \/ Unmount

SpecSched == InitSched /\ [][NextSched]_vars

\* ENABLED << AnimationFrame >>_vars, written out: the browser can run a frame, and the
\* frame changes the state (a callback runs, or the record of the last step changes).
FrameCanFire ==
    /\ phase \in {"committed", "mounted", "torndown"}
    /\ \/ rafQueue # {}
       \/ signalsSinceFrame # 0
       \/ cleanupSinceSignal
       \/ last # [ kind |-> "frame", computes |-> 0, signals |-> 0, cleanup |-> FALSE ]

\* WF_vars(AnimationFrame) with its ENABLED written out as FrameCanFire: the browser keeps
\* producing animation frames.
FrameFairness == ([]<>(~FrameCanFire)) \/ ([]<><< AnimationFrame >>_vars)

\* Frames keep firing, React runs a due effect, and a ResizeObserver delivers what it owes.
SpecSchedFair ==
    /\ InitSched
    /\ [][NextSched]_vars
    /\ FrameFairness
    /\ WF_vars(FlushPassive)
    /\ WF_vars(ResizeObserverCallback)

\* ------------------------------------------------------------------------
\* The style resolver on its own: getFamilyTreeConfig applied to presets and overrides
\* ------------------------------------------------------------------------
MaxOverrideGroups == 1    \* an override mentions at most MaxOverrideGroups groups

\* The value an override gives to a key: one no preset uses.
OverrideValue(group, key) ==
    IF group = "anchors" THEN 32
    ELSE IF key = "thickness" THEN Bracket("h-", 3)
    ELSE Name("bg-", "override")

\* Partial<FamilyTreeConnectorConfig>: some groups, each with some of its keys.
OverridesOf(groups) ==
    { [ g \in groups |-> [ k \in keys[g] |-> OverrideValue(g, k) ] ] :
        keys \in [ groups -> SUBSET (StatusKeys \cup LineKeys \cup AnchorKeys) ] }

Overrides ==
    UNION { { o \in OverridesOf(groups) : \A g \in groups : DOMAIN o[g] \subseteq KeysOf(g) } :
              groups \in { gs \in SUBSET GroupKeys : Cardinality(gs) <= MaxOverrideGroups } }

\* Names that are no preset: one no object has, and one every object inherits.
UnknownPresetNames == {"unknown", "constructor"}

\* What a host passes as preset name.
PresetInputs == PresetNames \cup UnknownPresetNames

\* FamilyTree is called with designPreset and designOverrides; nothing is rendered yet.
InitConfig ==
    /\ InitBeside
    /\ designPreset \in PresetInputs
    /\ designOverrides \in Overrides
    /\ connectorConfig = EmptyObject
    /\ rootMember = (CHOOSE input \in SchedInputs : TRUE).root
    /\ nodeElements = << >>
    /\ scroll = [ left |-> 0, top |-> 0 ]
    /\ lineSegments = << >>
    /\ canvasSize = [ width |-> 0, height |-> 0 ]
    /\ colorCache = EmptyObject
    /\ phase = "called"
    /\ effectProps = EmptyObject
    /\ frameId = 0
    /\ listeners = {}
    /\ rafQueue = {}
    /\ roPending = FALSE
    /\ passivePending = FALSE
    /\ signalsSinceFrame = 0
    /\ cleanupSinceSignal = FALSE
    /\ last = NoStep
    /\ owed = FALSE

\* const connectorConfig = useMemo(() => getFamilyTreeConfig(designPreset, designOverrides), ...)
ResolveConfig ==
    /\ phase = "called"
    /\ connectorConfig' = getFamilyTreeConfig(designPreset, designOverrides)
    /\ phase' = "unmounted"
    /\ last' = Step("config", 0)
    /\ UNCHANGED << besideTree, rootMember, designPreset, designOverrides, domVars, drawVars, effectProps,
                    frameId, listeners, rafQueue, roPending, passivePending, signalsSinceFrame,
                    cleanupSinceSignal, owed >>

NextConfig == ResolveConfig

SpecConfig == InitConfig /\ [][NextConfig]_vars

\* ------------------------------------------------------------------------
\* getFamilyTreeConfig called again and again by a host
\* ------------------------------------------------------------------------
MaxResolverCalls == 2    \* calls of getFamilyTreeConfig in one behaviour

ResolverOverrides ==
    { EmptyObject,
      [ anchors |-> [ verticalGapPx |-> 32 ] ],
      [ statusColors |-> [ linked |-> Name("bg-", "override") ] ] }

InitResolver ==
    /\ InitBeside
    /\ designPreset = "default"
    /\ designOverrides = EmptyObject
    /\ connectorConfig = EmptyObject
    /\ rootMember = (CHOOSE input \in SchedInputs : TRUE).root
    /\ nodeElements = << >>
    /\ scroll = [ left |-> 0, top |-> 0 ]
    /\ lineSegments = << >>
    /\ canvasSize = [ width |-> 0, height |-> 0 ]
    /\ colorCache = EmptyObject
    /\ phase = "called"
    /\ effectProps = EmptyObject
    /\ frameId = 0
    /\ listeners = {}
    /\ rafQueue = {}
    /\ roPending = FALSE
    /\ passivePending = FALSE
    /\ signalsSinceFrame = 0
    /\ cleanupSinceSignal = FALSE
    /\ last = NoStep
    /\ owed = FALSE

\* One call getFamilyTreeConfig(preset, override) (lines 94-127).
CallGetFamilyTreeConfig ==
    /\ Len(resolverLog) < MaxResolverCalls
    /\ \E preset \in PresetInputs, override \in ResolverOverrides :
         /\ resolverLog' = Append(resolverLog,
                                  [ preset |-> preset, override |-> override,
                                    config |-> ResolveWith(presetTable, preset, override) ])
         /\ presetTable' = TableAfterResolve(presetTable, preset, override)
    /\ UNCHANGED << treeVars, dialogVars, utilVars >>

NextResolver == CallGetFamilyTreeConfig

SpecResolver == InitResolver /\ [][NextResolver]_vars

\* ------------------------------------------------------------------------
\* The add-member flow: FamilyTree (lines 307-338, 498-509) and AddMemberDialog
\* ------------------------------------------------------------------------
Queries      == {"", " ", "a", "b"}
NameTexts    == {"", " ", "Bo"}
BirthdayTexts == {"", "1965"}
EmailTexts   == {"", "c@x.org"}
\* The add menu entries used: NodeCard calls onAddMember(relation, member.id).
AddMenus == { [ relation |-> "parent", parentId |-> rootMember.id ],
              [ relation |-> "child", parentId |-> "p1" ] }

\* ProfileSearchResult values a search provider returns.
Profiles ==
    { [ profileId |-> "u1", displayName |-> "Ann", avatarUrl |-> JsNull ],
      [ profileId |-> "u2", displayName |-> "Abe", avatarUrl |-> "https://x/abe.png" ] }

\* What searchProfiles(query) fulfils with: an array of profiles, or something that is no
\* array.
Responses ==
    { [ isArray |-> TRUE, value |-> << >> ],
      [ isArray |-> TRUE, value |-> << CHOOSE p \in Profiles : p.profileId = "u2",
                                       CHOOSE p \in Profiles : p.profileId = "u1" >> ],
      [ isArray |-> FALSE, value |-> << >> ] }

\* The dialog exists: FamilyTree renders it when canEdit && onAddMember (line 499).
Mounted == hostProps.canEdit /\ hostProps.onAddMember

\* The dialog shows its form: it returns null unless isOpen (line 182).
Shown == Mounted /\ dialogState.isOpen

\* A mutant of canSubmit: in search mode a typed query is enough.
canSubmitOnQuery(d) ==
    \/ d.mode = "search" /\ (d.selectedProfile # NoProfile \/ Trim(d.searchQuery) # "")
    \/ d.mode = "manual" /\ Trim(d.manualName) # ""
    \/ d.mode = "invite" /\ Trim(d.inviteFirstName) # "" /\ Trim(d.inviteEmail) # ""

\* canSubmit (lines 177-180).
canSubmit(d) ==
    \/ d.mode = "search" /\ d.selectedProfile # NoProfile
    \/ d.mode = "manual" /\ Trim(d.manualName) # ""
    \/ d.mode = "invite" /\ Trim(d.inviteFirstName) # "" /\ Trim(d.inviteEmail) # ""

\* value || undefined
OrUndefined(value) == IF value = "" THEN Undefined ELSE value

\* No branch of handleSubmit calls onAdd.
NoPayload == [ none |-> TRUE ]

\* The argument of onAdd in handleSubmit (lines 143-169), NoPayload when no branch is taken.
PayloadOf(d, relation, parentId) ==
    IF d.mode = "search" /\ d.selectedProfile # NoProfile
    THEN [ relation |-> relation, parentId |-> parentId, type |-> "existing",
           name |-> d.selectedProfile.displayName,
           profileId |-> d.selectedProfile.profileId,
           avatarUrl |-> IF d.selectedProfile.avatarUrl = JsNull
                         THEN Undefined ELSE d.selectedProfile.avatarUrl ]
    ELSE IF d.mode = "manual" /\ Trim(d.manualName) # ""
    THEN [ relation |-> relation, parentId |-> parentId, type |-> "manual",
           name |-> Trim(d.manualName),
           birthday |-> OrUndefined(Trim(d.manualBirthday)) ]
    ELSE IF d.mode = "invite" /\ Trim(d.inviteFirstName) # "" /\ Trim(d.inviteEmail) # ""
    THEN [ relation |-> relation, parentId |-> parentId, type |-> "invite",
           firstName |-> Trim(d.inviteFirstName),
           lastName |-> OrUndefined(Trim(d.inviteLastName)),
           email |-> Trim(d.inviteEmail) ]
    ELSE NoPayload

\* A mutant of ResetOnOpen: the reset leaves the selected profile.
ResetOnOpenKeepingProfile(d, searchEnabled) ==
    [ d EXCEPT !.mode = IF searchEnabled THEN "search" ELSE "manual",
               !.searchQuery = "", !.manualName = "", !.manualBirthday = "",
               !.inviteFirstName = "", !.inviteLastName = "", !.inviteEmail = "",
               !.searchResults = << >>, !.isSearching = FALSE ]

\* The reset effect (lines 114-127) when it runs with isOpen true.
ResetOnOpen(d, searchEnabled) ==
    [ d EXCEPT !.mode = IF searchEnabled THEN "search" ELSE "manual",
               !.searchQuery = "", !.manualName = "", !.manualBirthday = "",
               !.selectedProfile = NoProfile,
               !.inviteFirstName = "", !.inviteLastName = "", !.inviteEmail = "",
               !.searchResults = << >>, !.isSearching = FALSE ]

\* A mutant of Deactivated: the cleanup leaves `active` as it is.
DeactivatedNever(inFlight) == inFlight

\* The cleanup of the search effect (lines 106-108): the effect's promise is no longer active.
Deactivated(inFlight) == { [ search EXCEPT !.active = FALSE ] : search \in inFlight }

\* The body of the search effect (lines 84-104) for the props and the debounced query it
\* sees: the dialog after it, and the search it issues, if any.
SearchEffect(d, searchEnabled, query) ==
    IF ~searchEnabled \/ query = ""
    THEN [ dialog |-> [ d EXCEPT !.searchResults = << >>, !.isSearching = FALSE ],
           issued |-> {} ]
    ELSE [ dialog |-> [ d EXCEPT !.isSearching = TRUE ],
           issued |-> { [ query |-> query, active |-> TRUE ] } ]

\* A mutant of AfterSearchSettled: the chain has no .catch().
AfterSearchSettledNoCatch(d, search, fulfilled, response) ==
    IF ~search.active THEN [ dialog |-> d, unhandled |-> ~fulfilled ]
    ELSE IF fulfilled
    THEN [ dialog |-> [ d EXCEPT !.searchResults = IF response.isArray THEN response.value ELSE << >>,
                                 !.isSearching = FALSE ],
           unhandled |-> FALSE ]
    ELSE [ dialog |-> [ d EXCEPT !.isSearching = FALSE ], unhandled |-> TRUE ]

\* The .then / .catch / .finally chain on searchProfiles(debouncedQuery) (lines 92-104) when
\* the promise settles: the dialog after it, and whether an error is left unhandled.
AfterSearchSettled(d, search, fulfilled, response) ==
    IF ~search.active THEN [ dialog |-> d, unhandled |-> FALSE ]
    ELSE IF fulfilled
    THEN [ dialog |-> [ d EXCEPT !.searchResults = IF response.isArray THEN response.value ELSE << >>,
                                 !.isSearching = FALSE ],
           unhandled |-> FALSE ]
    ELSE [ dialog |-> [ d EXCEPT !.searchResults = << >>, !.isSearching = FALSE ],
           unhandled |-> FALSE ]

\* A mutant of DialogAfterOnAdd: setIsSubmitting(false) follows the await, outside a finally.
DialogAfterOnAddNoFinally(d, fulfilled) == [ d EXCEPT !.isSubmitting = ~fulfilled ]

\* AddMemberDialog after the awaited onAdd settled: finally { setIsSubmitting(false) }
\* (lines 172-174).
DialogAfterOnAdd(d, fulfilled) == [ d EXCEPT !.isSubmitting = FALSE ]

\* A mutant of StateAfterOnAdd: onClose() is called whether onAdd fulfilled or rejected.
StateAfterOnAddClosing(state, closure, fulfilled) == [ closure EXCEPT !.isOpen = FALSE ]

\* FamilyTree's dialogState after the awaited onAdd settled (lines 171, 502): onClose() of
\* the render handleSubmit was created in runs when onAdd fulfilled and is skipped when it
\* rejected.
StateAfterOnAdd(state, closure, fulfilled) ==
    IF fulfilled THEN [ closure EXCEPT !.isOpen = FALSE ] ELSE state

\* FamilyTree's isSubmitting after the awaited onAddMember settled (lines 335-337).
TreeAfterOnAddMember(fulfilled) == FALSE

InitDialog ==
    /\ presetTable = familyTreePresets
    /\ resolverLog = << >>
    /\ hasWindow = TRUE
    /\ theme = "light"
    /\ utilLog = << >>
    /\ \E canEdit \in BOOLEAN, onAddMember \in BOOLEAN, searchProfiles \in BOOLEAN :
         InitDialogWith(canEdit, onAddMember, searchProfiles, "root")
    /\ designPreset = "default"
    /\ designOverrides = EmptyObject
    /\ connectorConfig = ResolveWith(familyTreePresets, "default", EmptyObject)
    /\ rootMember = (CHOOSE input \in SchedInputs : TRUE).root
    /\ nodeElements = << >>
    /\ scroll = [ left |-> 0, top |-> 0 ]
    /\ lineSegments = << >>
    /\ canvasSize = [ width |-> 0, height |-> 0 ]
    /\ colorCache = EmptyObject
    /\ phase = "mounted"
    /\ effectProps = EmptyObject
    /\ frameId = 0
    /\ listeners = {}
    /\ rafQueue = {}
    /\ roPending = FALSE
    /\ passivePending = FALSE
    /\ signalsSinceFrame = 0
    /\ cleanupSinceSignal = FALSE
    /\ last = NoStep
    /\ owed = FALSE

\* What no step of the add-member flow touches.
besideDialog == << treeVars, resolverVars, utilVars >>

\* A card's add menu calls handleAddMember(relation, parentId) (lines 325-328); when isOpen
\* becomes true the dialog's reset effect runs (lines 114-127).
HandleAddMember ==
    /\ \E menu \in AddMenus :
         LET relation == menu.relation
             parentId == menu.parentId
         IN
         IF ~hostProps.canEdit \/ ~hostProps.onAddMember
         THEN /\ dialogLast' = [ kind |-> "addMember", opened |-> FALSE, menu |-> menu ]
              /\ UNCHANGED << dialogState, dialog >>
         ELSE /\ dialogState' = [ isOpen |-> TRUE, relation |-> relation, parentId |-> parentId ]
              /\ dialog' = IF dialogState.isOpen THEN dialog
                           ELSE ResetOnOpen(dialog, hostProps.searchProfiles)
              /\ dialogLast' = [ kind |-> "addMember", opened |-> TRUE, menu |-> menu ]
    /\ UNCHANGED << hostProps, isSubmitting, searches, submissions, besideDialog >>

\* Cancel, the X button or the backdrop: onClose of the render that is shown (line 502).
Close ==
    /\ Shown
    /\ dialogState' = [ dialogState EXCEPT !.isOpen = FALSE ]
    /\ dialogLast' = UserStep
    /\ UNCHANGED << hostProps, isSubmitting, dialog, searches, submissions, besideDialog >>

\* One of the mode toggle buttons (lines 213-256); "Search Users" exists when searchEnabled.
SetMode ==
    /\ Shown
    /\ \E mode \in {"search", "manual", "invite"} :
         /\ mode = "search" => hostProps.searchProfiles
         /\ dialog' = [ dialog EXCEPT !.mode = mode, !.selectedProfile = NoProfile ]
    /\ dialogLast' = UserStep
    /\ UNCHANGED << hostProps, dialogState, isSubmitting, searches, submissions, besideDialog >>

\* The "Add manually" link under the search box (lines 383-389).
AddManuallyLink ==
    /\ Shown
    /\ dialog.mode = "search" /\ dialog.selectedProfile = NoProfile
    /\ dialog' = [ dialog EXCEPT !.mode = "manual" ]
    /\ dialogLast' = UserStep
    /\ UNCHANGED << hostProps, dialogState, isSubmitting, searches, submissions, besideDialog >>

\* The X on the selected profile (line 302).
ClearSelection ==
    /\ Shown
    /\ dialog.mode = "search" /\ dialog.selectedProfile # NoProfile
    /\ dialog' = [ dialog EXCEPT !.selectedProfile = NoProfile ]
    /\ dialogLast' = UserStep
    /\ UNCHANGED << hostProps, dialogState, isSubmitting, searches, submissions, besideDialog >>

\* The user of one session of the dialog either works the search box or fills the forms:
\* a query is typed while the forms are as the reset left them, and a form is filled while
\* no query is typed, debounced or being searched.
FormsUntouched ==
    /\ dialog.manualName = "" /\ dialog.manualBirthday = ""
    /\ dialog.inviteFirstName = "" /\ dialog.inviteLastName = "" /\ dialog.inviteEmail = ""

SearchQuiet ==
    /\ dialog.searchQuery = "" /\ dialog.debouncedQuery = ""
    /\ searches = {}

\* Typing in the search box (line 316), shown in search mode while no profile is selected.
TypeQuery ==
    /\ Shown
    /\ dialog.mode = "search" /\ dialog.selectedProfile = NoProfile
    /\ FormsUntouched
    /\ \E query \in Queries \ {dialog.searchQuery} :
         dialog' = [ dialog EXCEPT !.searchQuery = query ]
    /\ dialogLast' = UserStep
    /\ UNCHANGED << hostProps, dialogState, isSubmitting, searches, submissions, besideDialog >>

\* The timer of useDebouncedValue fires (lines 20-29): debouncedQuery becomes
\* searchQuery.trim() and the search effect runs again (lines 83-109), cleanup first.
DebounceFires ==
    /\ Mounted
    /\ dialog.debouncedQuery # Trim(dialog.searchQuery)
    /\ LET query  == Trim(dialog.searchQuery)
           effect == SearchEffect([ dialog EXCEPT !.debouncedQuery = query ],
                                  hostProps.searchProfiles, query)
       IN  /\ dialog' = effect.dialog
           /\ searches' = Deactivated(searches) \cup effect.issued
    /\ dialogLast' = UserStep
    /\ UNCHANGED << hostProps, dialogState, isSubmitting, submissions, besideDialog >>

\* A click on a suggestion (lines 129-132, 335-340); the list is shown while the query is
\* not blank and no search is running.
SelectProfile ==
    /\ Shown
    /\ dialog.mode = "search" /\ dialog.selectedProfile = NoProfile
    /\ Trim(dialog.searchQuery) # "" /\ ~dialog.isSearching
    /\ \E i \in DOMAIN dialog.searchResults :
         dialog' = [ dialog EXCEPT !.selectedProfile = dialog.searchResults[i],
                                   !.searchQuery = "" ]
    /\ dialogLast' = UserStep
    /\ UNCHANGED << hostProps, dialogState, isSubmitting, searches, submissions, besideDialog >>

\* Typing in the fields of manual mode (lines 408, 428).
TypeManual ==
    /\ Shown
    /\ dialog.mode = "manual"
    /\ SearchQuiet
    /\ \E name \in NameTexts :
         \E birthday \in IF name = "Bo" THEN BirthdayTexts ELSE {""} :
         /\ << name, birthday >> # << dialog.manualName, dialog.manualBirthday >>
         /\ dialog' = [ dialog EXCEPT !.manualName = name, !.manualBirthday = birthday ]
    /\ dialogLast' = UserStep
    /\ UNCHANGED << hostProps, dialogState, isSubmitting, searches, submissions, besideDialog >>

\* Typing in the fields of invite mode (lines 447, 460, 474).
TypeInvite ==
    /\ Shown
    /\ dialog.mode = "invite"
    /\ SearchQuiet
    /\ \E first \in NameTexts \ {" "} :
         \E email \in IF first = "" THEN {""} ELSE EmailTexts :
         /\ << first, email >> # << dialog.inviteFirstName, dialog.inviteEmail >>
         /\ dialog' = [ dialog EXCEPT !.inviteFirstName = first, !.inviteEmail = email,
                                      !.inviteLastName = IF email = "" THEN "" ELSE "Lee" ]
    /\ dialogLast' = UserStep
    /\ UNCHANGED << hostProps, dialogState, isSubmitting, searches, submissions, besideDialog >>

\* A mutant of SubmitIgnored: a submission in flight does not stop another one.
SubmitIgnoredWhenIncomplete(d) == ~canSubmit(d)

\* The guard of handleSubmit (lines 137-139): if (!canSubmit || isSubmitting) return.
SubmitIgnored(d) == ~canSubmit(d) \/ d.isSubmitting

\* The form is submitted: handleSubmit up to its await (lines 134-169), and through
\* onAdd = handleAddConfirm up to its await (lines 330-334).
Submit ==
    /\ Shown
    /\ LET payload == PayloadOf(dialog, dialogState.relation, dialogState.parentId)
       IN  IF SubmitIgnored(dialog)
           THEN /\ dialogLast' = [ kind |-> "submit", called |-> FALSE, closed |-> FALSE,
                                   busy |-> dialog.isSubmitting, payload |-> NoPayload ]
                /\ UNCHANGED << dialogState, isSubmitting, dialog, submissions >>
           ELSE IF payload # NoPayload
           THEN /\ dialog' = [ dialog EXCEPT !.isSubmitting = TRUE ]
                /\ isSubmitting' = TRUE
                /\ submissions' = submissions \cup { [ payload |-> payload, closure |-> dialogState ] }
                /\ dialogLast' = [ kind |-> "submit", called |-> TRUE, closed |-> FALSE,
                                   busy |-> dialog.isSubmitting, payload |-> payload ]
                /\ UNCHANGED dialogState
           ELSE /\ dialogState' = [ dialogState EXCEPT !.isOpen = FALSE ]
                /\ dialogLast' = [ kind |-> "submit", called |-> FALSE, closed |-> TRUE,
                                   busy |-> dialog.isSubmitting, payload |-> NoPayload ]
                /\ UNCHANGED << isSubmitting, dialog, submissions >>
    /\ UNCHANGED << hostProps, searches, besideDialog >>

\* The host's onAddMember fulfils: handleAddConfirm's finally (lines 335-337), then
\* handleSubmit goes on: onClose() of the render it was created in, and its finally
\* (lines 171-174).
OnAddFulfils ==
    /\ \E submission \in submissions :
         /\ submissions' = submissions \ {submission}
         /\ dialogState' = StateAfterOnAdd(dialogState, submission.closure, TRUE)
    /\ isSubmitting' = TreeAfterOnAddMember(TRUE)
    /\ dialog' = DialogAfterOnAdd(dialog, TRUE)
    /\ dialogLast' = [ kind |-> "onAddFulfilled", closed |-> TRUE, unhandled |-> FALSE ]
    /\ UNCHANGED << hostProps, searches, besideDialog >>

\* The host's onAddMember rejects or throws: both finally blocks run, onClose() is skipped
\* and the error leaves handleSubmit, where nothing handles it.
OnAddRejects ==
    /\ \E submission \in submissions :
         /\ submissions' = submissions \ {submission}
         /\ dialogState' = StateAfterOnAdd(dialogState, submission.closure, FALSE)
    /\ isSubmitting' = TreeAfterOnAddMember(FALSE)
    /\ dialog' = DialogAfterOnAdd(dialog, FALSE)
    /\ dialogLast' = [ kind |-> "onAddRejected", closed |-> FALSE, unhandled |-> TRUE ]
    /\ UNCHANGED << hostProps, searches, besideDialog >>

\* The promise of one searchProfiles(query) call settles and its chain runs (lines 93-104).
SettleSearch(search, fulfilled, response) ==
    LET after == AfterSearchSettled(dialog, search, fulfilled, response)
    IN  /\ searches' = searches \ {search}
        /\ dialog' = after.dialog
        /\ dialogLast' = [ kind |-> IF fulfilled THEN "searchFulfilled" ELSE "searchRejected",
                           active |-> search.active, unhandled |-> after.unhandled,
                           shown |-> Len(dialog.searchResults) ]
        /\ UNCHANGED << hostProps, dialogState, isSubmitting, submissions, besideDialog >>

\* A searchProfiles(query) promise settles, in any order.
SearchSettles(fulfilled, response) ==
    \E search \in searches : SettleSearch(search, fulfilled, response)

SearchFulfils == \E response \in Responses : SearchSettles(TRUE, response)

SearchRejects == SearchSettles(FALSE, [ isArray |-> FALSE, value |-> << >> ])

\* The host renders FamilyTree with another searchProfiles prop: another function, or none.
\* The effects of the commit run in order: the mode fallback (lines 77-81), the search
\* effect, cleanup first (lines 83-109), and, when searchEnabled changed, the reset effect
\* (lines 114-127).
HostChangesSearchProfiles ==
    /\ Mounted
    /\ \E present \in BOOLEAN :
         LET fallen == IF ~present /\ dialog.mode = "search"
                       THEN [ dialog EXCEPT !.mode = "manual" ] ELSE dialog
             effect == SearchEffect(fallen, present, fallen.debouncedQuery)
         IN  /\ hostProps' = [ hostProps EXCEPT !.searchProfiles = present ]
             /\ searches' = Deactivated(searches) \cup effect.issued
             /\ dialog' = IF present # hostProps.searchProfiles /\ dialogState.isOpen
                          THEN ResetOnOpen(effect.dialog, present)
                          ELSE effect.dialog
    /\ dialogLast' = UserStep
    /\ UNCHANGED << dialogState, isSubmitting, submissions, besideDialog >>

NextDialog ==
    \/ HandleAddMember
    \/ Close
    \/ SetMode
    \/ AddManuallyLink
    \/ ClearSelection
    \/ TypeQuery
    \/ DebounceFires
    \/ SelectProfile
    \/ TypeManual
    \/ TypeInvite
    \/ Submit
    \/ OnAddFulfils
    \/ OnAddRejects
    \/ SearchFulfils
    \/ SearchRejects
    \/ HostChangesSearchProfiles

SpecDialog == InitDialog /\ [][NextDialog]_vars

\* ------------------------------------------------------------------------
\* The search box of AddMemberDialog with a provider that answers by the query
\* ------------------------------------------------------------------------
\* What a search provider that is a function of the query fulfils with.
ResponseTo(query) ==
    [ isArray |-> TRUE,
      value   |-> IF query = "a" THEN << CHOOSE p \in Profiles : p.profileId = "u1" >>
                  ELSE << CHOOSE p \in Profiles : p.profileId = "u2",
                          CHOOSE p \in Profiles : p.profileId = "u1" >> ]

\* A search is answered, whichever was issued first.
SearchAnswers == \E search \in searches : SettleSearch(search, TRUE, ResponseTo(search.query))

\* The host renders FamilyTree with canEdit switched.  With canEdit false the dialog is not
\* rendered (line 499): it unmounts, its state is gone, the cleanup of its search effect
\* runs (lines 106-108) and its debounce timer is cleared (line 26).  With canEdit true
\* again the dialog mounts with its initial state; dialogState is FamilyTree's and stays.
HostChangesCanEdit ==
    /\ submissions = {}
    /\ hostProps' = [ hostProps EXCEPT !.canEdit = ~hostProps.canEdit ]
    /\ searches' = Deactivated(searches)
    /\ dialog' = InitialDialog(hostProps.searchProfiles)
    /\ dialogLast' = UserStep
    /\ UNCHANGED << dialogState, isSubmitting, submissions, besideDialog >>

NextSearch ==
    \/ HandleAddMember
    \/ Close
    \/ TypeQuery
    \/ DebounceFires
    \/ SelectProfile
    \/ ClearSelection
    \/ SearchAnswers
    \/ SearchRejects
    \/ HostChangesSearchProfiles
    \/ HostChangesCanEdit

SpecSearch == InitDialog /\ [][NextSearch]_vars

\* The identifiers the host gives the root member over time.
RootIds == {"root", "r2"}

\* A mutant of StateAfterRootChange: the anchor follows the root also while the dialog is open.
StateAfterRootChangeAlways(prev, rootId) == [ prev EXCEPT !.parentId = rootId ]

\* The updater of the rootMember.id effect (lines 317-321).
StateAfterRootChange(prev, rootId) ==
    IF prev.isOpen THEN prev ELSE [ prev EXCEPT !.parentId = rootId ]

\* What a change of the root's identifier leaves of the tree.
besideRoot == << designPreset, designOverrides, connectorConfig, nodeElements, scroll,
                 lineSegments, canvasSize, colorCache, phase, effectProps, frameId, listeners,
                 rafQueue, roPending, passivePending, signalsSinceFrame, cleanupSinceSignal,
                 last, owed >>

\* The host renders FamilyTree with a root member of another id: the effect of lines
\* 317-321 runs after the commit.
RootIdChanges ==
    /\ \E rootId \in RootIds \ {rootMember.id} :
         /\ rootMember' = [ rootMember EXCEPT !.id = rootId ]
         /\ dialogState' = StateAfterRootChange(dialogState, rootId)
    /\ dialogLast' = [ kind |-> "rootChange", wasOpen |-> dialogState.isOpen ]
    /\ UNCHANGED << hostProps, isSubmitting, dialog, searches, submissions, besideRoot,
                    resolverVars, utilVars >>

\* The add-member dialog of a tree whose root changes.
NextAnchor ==
    \/ HandleAddMember
    \/ Close
    \/ SetMode
    \/ TypeManual
    \/ Submit
    \/ OnAddFulfils
    \/ OnAddRejects
    \/ RootIdChanges
    \/ HostChangesCanEdit

SpecAnchor == InitDialog /\ [][NextAnchor]_vars

\* ------------------------------------------------------------------------
\* Properties of the geometry engine (checked under Spec)
\* ------------------------------------------------------------------------
\* lineSegments is what computeLineSegments made of the present tree and cards.
Computed == last.kind = "layout"

IsMeasured(id) == \E i \in DOMAIN nodeElements : nodeElements[i].nodeId = id

\* The measured rectangle of a member: its card's place in the container's content.
RectOf(id) ==
    LET box == nodeElements[CHOOSE i \in DOMAIN nodeElements : nodeElements[i].nodeId = id].box
    IN  [ left |-> box.left, top |-> box.top, width |-> box.width, height |-> box.height,
          right |-> box.left + box.width, bottom |-> box.top + box.height ]

MeasuredIn(members) == { i \in DOMAIN members : IsMeasured(members[i].id) }

\* The units of the tree: parent set and child set, under the id their segments carry.
TheUnits ==
    (IF Len(rootMember.parents) > 0
     THEN { [ id |-> "parents", parents |-> rootMember.parents,
              children |-> rootMember.siblings \o << Self(rootMember) >> ] }
     ELSE {})
    \cup
    (IF "spouse" \in DOMAIN rootMember
     THEN { [ id |-> "root-couple", parents |-> << Self(rootMember), rootMember.spouse >>,
              children |-> rootMember.children ] }
     ELSE IF Len(rootMember.children) > 0
     THEN { [ id |-> "root-single", parents |-> << Self(rootMember) >>,
              children |-> rootMember.children ] }
     ELSE {})

SegCount(id) == Cardinality({ i \in DOMAIN lineSegments : lineSegments[i].id = id })
Seg(id) == lineSegments[CHOOSE i \in DOMAIN lineSegments : lineSegments[i].id = id]

\* Every member id of the tree, and every identifier a segment of a unit can carry.
TreeIds == Range(CardOrder(rootMember))
DropIds(unitId) == { unitId \o "-drop-" \o id : id \in TreeIds }
UnitSegIds(unitId) ==
    { unitId \o "-couple", unitId \o "-trunk", unitId \o "-bar" } \cup DropIds(unitId)
KnownSegIds == UNION { UnitSegIds(unitId) : unitId \in {"parents", "root-couple", "root-single"} }

\* Half-pixel coordinates of the anchors of a measured member.
TopCenterX(id) == 2 * RectOf(id).left + RectOf(id).width
TopY(id)       == 2 * RectOf(id).top
MidY(id)       == 2 * RectOf(id).top + RectOf(id).height

\* C1: in a unit with a junction (a measured parent) and at least one measured child, the
\* bus '<unit>-bar' runs horizontally from the least to the greatest of {the measured
\* children's top-center X, the junction X (the trunk's X)}, at the least top Y of the
\* measured children minus anchors.verticalGapPx.
C1_BusSpan ==
    Computed =>
      \A u \in TheUnits :
        (MeasuredIn(u.parents) # {} /\ MeasuredIn(u.children) # {}) =>
          /\ SegCount(u.id \o "-bar") = 1
          /\ SegCount(u.id \o "-trunk") = 1
          /\ LET junctionX == Seg(u.id \o "-trunk").d[1]
                 xs   == { TopCenterX(u.children[i].id) : i \in MeasuredIn(u.children) } \cup {junctionX}
                 barY == Min({ TopY(u.children[i].id) : i \in MeasuredIn(u.children) })
                           - 2 * connectorConfig.anchors.verticalGapPx
             IN  Seg(u.id \o "-bar").d = << Min(xs), barY, Max(xs), barY >>

\* C1 witness: two measured children at distinct X, of uneven height, and the junction to
\* the right of both: the bus ends at the junction.
C1_Witness ==
    /\ Computed
    /\ \E u \in TheUnits :
         /\ Cardinality(MeasuredIn(u.children)) >= 2
         /\ SegCount(u.id \o "-bar") = 1 /\ SegCount(u.id \o "-trunk") = 1
         /\ \E i, j \in MeasuredIn(u.children) :
              /\ TopCenterX(u.children[i].id) # TopCenterX(u.children[j].id)
              /\ TopY(u.children[i].id) # TopY(u.children[j].id)
         /\ \A i \in MeasuredIn(u.children) :
              TopCenterX(u.children[i].id) < Seg(u.id \o "-trunk").d[1]
         /\ Seg(u.id \o "-bar").d[3] = Seg(u.id \o "-trunk").d[1]

\* C2: a unit whose two parents are both measured has exactly one couple line, from the
\* left parent's (right - coupleInsetPx, mid-height) to the right parent's
\* (left + coupleInsetPx, mid-height), left and right being by measured left coordinate;
\* the trunk, when drawn, is vertical at the midpoint of the two endpoint X values.
C2_CoupleLine ==
    Computed =>
      \A u \in TheUnits :
        (Len(u.parents) = 2 /\ MeasuredIn(u.parents) = {1, 2}) =>
          /\ SegCount(u.id \o "-couple") = 1
          /\ LET couple == Seg(u.id \o "-couple").d
                 inset  == connectorConfig.anchors.coupleInsetPx
             IN  /\ \E l, r \in {1, 2} :
                       LET L == u.parents[l].id
                           R == u.parents[r].id
                       IN  /\ l # r
                           /\ RectOf(L).left <= RectOf(R).left
                           /\ couple = << 2 * (RectOf(L).right - inset), MidY(L),
                                          2 * (RectOf(R).left + inset), MidY(R) >>
                 /\ SegCount(u.id \o "-trunk") <= 1
                 /\ SegCount(u.id \o "-trunk") = 1 =>
                       LET trunk == Seg(u.id \o "-trunk").d
                       IN  /\ trunk[1] = trunk[3]
                           /\ 2 * trunk[1] = couple[1] + couple[3]
                           /\ trunk[1] - couple[1] = couple[3] - trunk[1]

\* C2 witness: two measured parents, the second listed to the left of the first, a
\* non-zero inset, and a trunk drawn from their junction.
C2_Witness ==
    /\ Computed
    /\ connectorConfig.anchors.coupleInsetPx > 0
    /\ \E u \in TheUnits :
         /\ Len(u.parents) = 2 /\ MeasuredIn(u.parents) = {1, 2}
         /\ RectOf(u.parents[2].id).left < RectOf(u.parents[1].id).left
         /\ SegCount(u.id \o "-couple") = 1
         /\ SegCount(u.id \o "-trunk") = 1

\* C3: a unit with exactly one measured parent has no couple line, and its trunk, when
\* drawn, starts at the bottom-center of that parent's rectangle.
C3_SingleParent ==
    Computed =>
      \A u \in TheUnits :
        Cardinality(MeasuredIn(u.parents)) = 1 =>
          /\ SegCount(u.id \o "-couple") = 0
          /\ SegCount(u.id \o "-trunk") <= 1
          /\ SegCount(u.id \o "-trunk") = 1 =>
               LET parent == u.parents[CHOOSE i \in MeasuredIn(u.parents) : TRUE].id
                   trunk  == Seg(u.id \o "-trunk").d
               IN  /\ trunk[1] = 2 * RectOf(parent).left + RectOf(parent).width
                   /\ trunk[2] = 2 * RectOf(parent).bottom

\* C3 witness: a unit with one measured parent whose trunk is drawn.
C3_Witness ==
    /\ Computed
    /\ \E u \in TheUnits :
         /\ Cardinality(MeasuredIn(u.parents)) = 1
         /\ SegCount(u.id \o "-trunk") = 1

\* C4: a unit whose child set is empty has no trunk, no bus and no drop, whatever its
\* parents are; and no segment carries an identifier outside those of the units.
C4_NoChildren ==
    Computed =>
      /\ \A i \in DOMAIN lineSegments : lineSegments[i].id \in KnownSegIds
      /\ \A u \in TheUnits :
           u.children = << >> =>
             \A id \in UnitSegIds(u.id) \ { u.id \o "-couple" } : SegCount(id) = 0

\* C4 witness: a unit without children whose two parents are measured: a junction exists
\* and the couple line is drawn.
C4_Witness ==
    /\ Computed
    /\ \E u \in TheUnits :
         /\ u.children = << >>
         /\ SegCount(u.id \o "-couple") = 1

\* C5: on every tree and every set of unmeasured members, the segments computeLineSegments
\* emits hold no drop for an unmeasured child, no couple line unless two parents are
\* measured, and no segment at all for a unit whose parents are all unmeasured.
C5_UnmeasuredSkipped ==
    Computed =>
      /\ \A i \in DOMAIN lineSegments : lineSegments[i].id \in KnownSegIds
      /\ \A u \in TheUnits :
           /\ \A i \in DOMAIN u.children :
                ~IsMeasured(u.children[i].id) => SegCount(u.id \o "-drop-" \o u.children[i].id) = 0
           /\ Cardinality(MeasuredIn(u.parents)) < 2 => SegCount(u.id \o "-couple") = 0
           /\ MeasuredIn(u.parents) = {} => \A id \in UnitSegIds(u.id) : SegCount(id) = 0

\* C5 witness: a unit with a measured parent, an unmeasured child and a measured child
\* that has its drop.
C5_Witness ==
    /\ Computed
    /\ \E u \in TheUnits :
         /\ MeasuredIn(u.parents) # {}
         /\ \E i, j \in DOMAIN u.children :
              /\ ~IsMeasured(u.children[i].id)
              /\ IsMeasured(u.children[j].id)
              /\ SegCount(u.id \o "-drop-" \o u.children[j].id) = 1

\* ------------------------------------------------------------------------
\* Properties of the scheduling effect (checked under SpecSched and SpecSchedFair)
\* ------------------------------------------------------------------------
\* C6 as stated: in a mounted component, an animation frame that follows one or more calls
\* of schedule() makes exactly one call of computeLineSegments.
C6_ExactlyOnePerFrame ==
    (last.kind = "frame" /\ last.signals >= 1 /\ phase = "mounted") => last.computes = 1

\* C6 as amended: an animation frame that follows one or more calls of schedule() makes
\* at most one call of computeLineSegments: exactly one when no effect cleanup ran after
\* the last of these calls, none when one did.
C6_CoalescedPerFrame ==
    (last.kind = "frame" /\ last.signals >= 1) =>
        /\ last.computes <= 1
        /\ ~last.cleanup => last.computes = 1
        /\ last.cleanup => last.computes = 0

\* C6 witness: a frame that followed two or more calls of schedule() and made one call.
C6_Witness ==
    /\ last.kind = "frame"
    /\ last.signals >= 2
    /\ ~last.cleanup
    /\ last.computes = 1

\* C7: at most one requested animation frame is pending, and it is the installed
\* effect's; also across re-runs of the effect.
C7_AtMostOnePending ==
    /\ Cardinality(rafQueue) <= 1
    /\ rafQueue \subseteq {frameId}

\* C7 witness: a second call of schedule() replaced the frame of the first, in an effect
\* installed by a re-run.
C7_Witness ==
    /\ signalsSinceFrame >= 2
    /\ cleanupSinceSignal = FALSE
    /\ Cardinality(rafQueue) = 1
    /\ effectProps.root # (CHOOSE input \in SchedInputs : TRUE).root
    /\ last.cleanup

\* C8: once the component is torn down, no step calls computeLineSegments: no frame is
\* pending, the observer is disconnected and no listener is left.
C8_NoComputeAfterTeardown ==
    phase = "torndown" =>
        /\ last.computes = 0
        /\ rafQueue = {}
        /\ listeners = {}
        /\ ~roPending

\* C8 witness: the teardown cancelled a pending frame, and a later animation frame and a
\* later window resize found nothing to run.
C8_Witness ==
    /\ phase = "torndown"
    /\ last.kind = "frame"
    /\ last.signals >= 1
    /\ last.cleanup

\* C9: while the component stays mounted, every trigger is followed by a run of
\* computeLineSegments that starts after it.
C9_TriggerLeadsToCompute ==
    [](owed => <>(~owed \/ phase = "torndown"))

\* C9 witness: a trigger is owed a run, the frame requested for it was cancelled by a
\* re-run of the effect, and the new observer's first notification is due.
C9_Witness ==
    /\ phase = "mounted"
    /\ owed
    /\ cleanupSinceSignal
    /\ signalsSinceFrame >= 1
    /\ rafQueue = {}
    /\ roPending

\* C10: for every preset and every override that sets some keys of some groups, the config
\* getFamilyTreeConfig returns has, in every group, exactly the group's keys, with the
\* override's value for a key the override sets and the preset's value for every other
\* key, also in a group the override does not mention; preset "compact" with override
\* {anchors: {verticalGapPx: 32}} gives anchors.coupleInsetPx = 0 and verticalGapPx = 32.
C10_PartialOverrideMerges ==
    (last.kind = "config" /\ designPreset \in PresetNames) =>
      /\ \A g \in GroupKeys :
           /\ g \in DOMAIN connectorConfig
           /\ DOMAIN connectorConfig[g] = KeysOf(g)
           /\ \A k \in KeysOf(g) :
                connectorConfig[g][k] =
                  IF g \in DOMAIN designOverrides /\ k \in DOMAIN designOverrides[g]
                  THEN designOverrides[g][k]
                  ELSE familyTreePresets[designPreset][g][k]
      /\ (designPreset = "compact" /\ designOverrides = [ anchors |-> [ verticalGapPx |-> 32 ] ]) =>
           connectorConfig.anchors = [ coupleInsetPx |-> 0, verticalGapPx |-> 32 ]

\* C10 witness: preset "compact" resolved with the override {anchors: {verticalGapPx: 32}}.
C10_Witness ==
    /\ last.kind = "config"
    /\ designPreset = "compact"
    /\ designOverrides = [ anchors |-> [ verticalGapPx |-> 32 ] ]
    /\ connectorConfig.anchors.coupleInsetPx = 0
    /\ connectorConfig.anchors.verticalGapPx = 32
    /\ connectorConfig.trunk = compactPreset.trunk

\* C11 as stated: for every preset name outside {default, compact, contrast} and every
\* override, getFamilyTreeConfig returns the config it returns for "default" with that
\* override.
C11_UnknownPresetIsDefault ==
    (last.kind = "config" /\ designPreset \notin PresetNames) =>
        connectorConfig = ResolveWith(familyTreePresets, "default", designOverrides)

C13_ExistingPayload ==
    /\ (dialog.mode = "search" /\ dialog.selectedProfile = NoProfile) => ~canSubmit(dialog)
    /\ dialogLast.kind = "submit" =>
         /\ (dialog.mode = "search" /\ dialog.selectedProfile = NoProfile) =>
               (~dialogLast.called /\ ~dialogLast.closed)
         /\ (dialog.mode = "search" /\ dialog.selectedProfile # NoProfile /\ ~dialogLast.busy) =>
               /\ dialogLast.called
               /\ dialogLast.payload \in { submission.payload : submission \in submissions }
               /\ dialogLast.payload.type = "existing"
               /\ dialogLast.payload.profileId = dialog.selectedProfile.profileId
               /\ dialogLast.payload.name = dialog.selectedProfile.displayName
               /\ dialogLast.payload.relation = dialogState.relation
               /\ dialogLast.payload.parentId = dialogState.parentId

\* C13 witness: the profile "u1" was selected and submitted from the add menu of card p1.
C13_Witness ==
    /\ dialogLast.kind = "submit"
    /\ dialogLast.called
    /\ dialogLast.payload.type = "existing"
    /\ dialogLast.payload.profileId = "u1"
    /\ dialogLast.payload.parentId = "p1"

\* C14: when no onAddMember call is in flight, neither FamilyTree's nor AddMemberDialog's
\* isSubmitting is true: each is false again once the call settled, fulfilled or rejected.
C14_SubmittingCleared ==
    /\ submissions = {} => (~isSubmitting /\ ~dialog.isSubmitting)
    /\ dialogLast.kind \in {"onAddFulfilled", "onAddRejected"} =>
         (~isSubmitting /\ ~dialog.isSubmitting)

\* C14 witness: the host's call rejected, and the dialog is still open.
C14_Witness ==
    /\ dialogLast.kind = "onAddRejected"
    /\ dialogState.isOpen
    /\ ~isSubmitting /\ ~dialog.isSubmitting

\* C15: when the search provider rejects a query whose effect is still the current one,
\* searchResults is the empty list and isSearching is false afterwards, and no rejection,
\* of a current search or a superseded one, is left unhandled.
C15_RejectedSearchIsEmpty ==
    dialogLast.kind = "searchRejected" =>
        /\ ~dialogLast.unhandled
        /\ dialogLast.active => (dialog.searchResults = << >> /\ ~dialog.isSearching)

\* C15 witness: the current search rejected while results of an earlier search were held.
C15_Witness ==
    /\ dialogLast.kind = "searchRejected"
    /\ dialogLast.active
    /\ dialogLast.shown > 0
    /\ dialog.searchResults = << >>
    /\ ~dialog.isSearching

\* C16 as stated: the identifiers of the segments one run of computeLineSegments emits are
\* pairwise distinct, also on a tree that lists a member more than once, and they are the
\* identifiers a run on the same tree and measurements gives.
C16_DistinctIds ==
    Computed =>
      /\ \A i, j \in DOMAIN lineSegments :
           i # j => lineSegments[i].id # lineSegments[j].id
      /\ LET again == Segments(rootMember, nodeElements, scroll, connectorConfig, colorCache)
         IN  [ i \in DOMAIN lineSegments |-> lineSegments[i].id ]
               = [ i \in DOMAIN again |-> again[i].id ]

\* Scroll offsets the container can be at besides the one of the run.
ScrollOffsets == { [ left |-> l, top |-> t ] : l \in {0, 3, 7}, t \in {0, 30} }

\* C17: for a fixed layout of the cards in the container's content, the measured rectangles
\* are the cards' places in the content (client rect - container client rect + scroll
\* offset), so the rectangles and the path of every emitted segment are the same at every
\* scroll offset of the container.
C17_ScrollInvariant ==
    Computed =>
      /\ \A i \in DOMAIN nodeElements :
           nodeElements[i].nodeId # "" =>
             LET rect == RelativeRect(nodeElements[i], scroll)
                 box  == nodeElements[i].box
             IN  /\ rect.left = box.left /\ rect.top = box.top
                 /\ rect.width = box.width /\ rect.height = box.height
                 /\ rect.right = box.left + box.width /\ rect.bottom = box.top + box.height
      /\ \A scr \in ScrollOffsets :
           /\ MeasureRects(nodeElements, scr) = MeasureRects(nodeElements, scroll)
           /\ LET there == Calls(rootMember, nodeElements, scr, connectorConfig)
              IN  [ i \in DOMAIN lineSegments |-> << lineSegments[i].id, lineSegments[i].d >> ]
                    = [ i \in DOMAIN there |-> << there[i].id, there[i].d >> ]

\* A run at a scrolled container that emits a full unit.
C17_Witness ==
    /\ Computed
    /\ scroll.left > 0 /\ scroll.top > 0
    /\ \E i \in DOMAIN lineSegments : lineSegments[i].id = "root-couple-bar"

\* The identifiers of the emitted segments.
SegIds == { lineSegments[i].id : i \in DOMAIN lineSegments }

\* The drops a unit emits under the id unitId for the measured members of a child set.
DropsFor(unitId, children) == { unitId \o "-drop-" \o children[i].id : i \in MeasuredIn(children) }

\* C18: the root's own unit.  With a spouse the unit is 'root-couple' with parent set
\* [root, spouse] and child set root.children: a couple line joins the two measured cards
\* even when there is no child, and every measured child hangs from the unit.  Without a
\* spouse and with at least one child the unit is 'root-single' with parent set [root]: no
\* couple line, the trunk leaves the root's bottom center, every measured child hangs from
\* it.  With neither spouse nor children the unit emits no segment.
C18_RootUnit ==
    Computed =>
      LET couple   == SegIds \cap UnitSegIds("root-couple")
          single   == SegIds \cap UnitSegIds("root-single")
          children == rootMember.children
      IN  /\ "spouse" \in DOMAIN rootMember =>
               /\ single = {}
               /\ (IsMeasured(rootMember.id) /\ IsMeasured(rootMember.spouse.id))
                     <=> "root-couple-couple" \in couple
               /\ IF IsMeasured(rootMember.id) \/ IsMeasured(rootMember.spouse.id)
                  THEN /\ couple \cap DropIds("root-couple") = DropsFor("root-couple", children)
                       /\ "root-couple-trunk" \in couple <=> MeasuredIn(children) # {}
                  ELSE couple = {}
          /\ ("spouse" \notin DOMAIN rootMember /\ Len(children) > 0) =>
               /\ couple = {}
               /\ "root-single-couple" \notin single
               /\ IF IsMeasured(rootMember.id)
                  THEN /\ single \cap DropIds("root-single") = DropsFor("root-single", children)
                       /\ MeasuredIn(children) # {} =>
                            /\ SegCount("root-single-trunk") = 1
                            /\ Seg("root-single-trunk").d[1] = TopCenterX(rootMember.id)
                            /\ Seg("root-single-trunk").d[2] = 2 * RectOf(rootMember.id).bottom
                  ELSE single = {}
          /\ ("spouse" \notin DOMAIN rootMember /\ Len(children) = 0) =>
               couple = {} /\ single = {}

\* A run on a root with a spouse and no children that draws the couple line.
C18_Witness ==
    /\ Computed
    /\ "spouse" \in DOMAIN rootMember
    /\ Len(rootMember.children) = 0
    /\ "root-couple-couple" \in SegIds

\* A run on a root without spouse whose measured children hang from the root alone.
C18_WitnessSingle ==
    /\ Computed
    /\ "spouse" \notin DOMAIN rootMember
    /\ "root-single-trunk" \in SegIds

\* The identifiers of the drops of a unit, in the order they were emitted.
DropSeq(unitId) ==
    LET IsDrop(segment) == segment.id \in DropIds(unitId)
        drops == SelectSeq(lineSegments, IsDrop)
    IN  [ i \in DOMAIN drops |-> drops[i].id ]

\* The drops of a child list in list order, for its measured members.
RECURSIVE DropSeqFor(_, _)
DropSeqFor(unitId, children) ==
    IF children = << >> THEN << >>
    ELSE (IF IsMeasured(Head(children).id)
          THEN << unitId \o "-drop-" \o Head(children).id >> ELSE << >>)
         \o DropSeqFor(unitId, Tail(children))

\* C19: when the root has at least one parent, the 'parents' unit has the root's parents as
\* parent set and [...siblings, root] as child set: under a measured parent, the measured
\* siblings and then the root each get one drop, all of them hanging from the one bus
\* 'parents-bar'.  When the root has no parents no 'parents-*' segment is emitted, also
\* when it has siblings.
C19_ParentsUnit ==
    Computed =>
      LET unit     == SegIds \cap UnitSegIds("parents")
          children == rootMember.siblings \o << Self(rootMember) >>
      IN  /\ Len(rootMember.parents) = 0 => unit = {}
          /\ (Len(rootMember.parents) > 0 /\ MeasuredIn(rootMember.parents) # {}) =>
               /\ DropSeq("parents") = DropSeqFor("parents", children)
               /\ MeasuredIn(children) # {} =>
                    /\ SegCount("parents-bar") = 1
                    /\ SegCount("parents-trunk") = 1
                    /\ \A i \in MeasuredIn(children) :
                         LET drop == Seg("parents-drop-" \o children[i].id)
                             bar  == Seg("parents-bar")
                         IN  /\ SegCount("parents-drop-" \o children[i].id) = 1
                             /\ drop.d[1] = TopCenterX(children[i].id)
                             /\ drop.d[2] = bar.d[2]
                             /\ bar.d[1] <= drop.d[1] /\ drop.d[1] <= bar.d[3]
                             /\ drop.d[4] = TopY(children[i].id)

\* A run that hangs a sibling and the root from the bus of the parents.
C19_Witness ==
    /\ Computed
    /\ Len(rootMember.parents) > 0
    /\ DropSeq("parents") = << "parents-drop-s1", "parents-drop-root" >>

\* A run on a root with a measured sibling and no parents.
C19_WitnessNoParents ==
    /\ Computed
    /\ Len(rootMember.parents) = 0
    /\ MeasuredIn(rootMember.siblings) # {}

\* The colour a segment of a unit is stroked with: the colour of the class statusColors
\* gives the status (its default entry when there is no status), and of the line's own
\* colorClass only when that class is empty.
UnitStroke(status, lineStyle) ==
    LET mapped == connectorConfig.statusColors[IF status = Undefined THEN "default" ELSE status]
        class  == IF mapped # << >> THEN mapped ELSE lineStyle.colorClass
    IN  ProbeColor(class[1])

\* The first status among the members of a list, in list order; Undefined when none has one.
RECURSIVE FirstStatus(_)
FirstStatus(members) ==
    IF members = << >> THEN Undefined
    ELSE IF Head(members).status # Undefined THEN Head(members).status
    ELSE FirstStatus(Tail(members))

\* C20: the couple line, the trunk and the bus of a unit are stroked with the colour of the
\* class statusColors maps to the first status found among the members of the unit's parent
\* set, in list order (wherever their cards are); when no member of the parent set has a
\* status, with the colour of statusColors.default; the line's own colorClass does not
\* matter as long as the status mapping gives a class.
C20_UnitStroke ==
    Computed =>
      \A u \in TheUnits :
        LET status == FirstStatus(u.parents)
        IN  /\ u.id \o "-couple" \in SegIds =>
                 Seg(u.id \o "-couple").stroke = UnitStroke(status, connectorConfig.coupleLine)
            /\ u.id \o "-trunk" \in SegIds =>
                 Seg(u.id \o "-trunk").stroke = UnitStroke(status, connectorConfig.trunk)
            /\ u.id \o "-bar" \in SegIds =>
                 Seg(u.id \o "-bar").stroke = UnitStroke(status, connectorConfig.siblingBus)

\* A run in which the parents carry statuses of different colours, the second parent stands
\* left of the first, the lines of their unit take the first parent's colour, and the
\* root's own unit, whose members have no status, takes the default colour.
C20_Witness ==
    /\ Computed
    /\ Len(rootMember.parents) = 2
    /\ IsMeasured("p1") /\ IsMeasured("p2") /\ "spouse" \in DOMAIN rootMember
    /\ SegCount("parents-couple") = 1 /\ SegCount("parents-bar") = 1
    /\ SegCount("root-couple-trunk") = 1
    /\ rootMember.parents[1].status = "linked"
    /\ rootMember.parents[2].status = "manual"
    /\ RectOf("p2").left < RectOf("p1").left
    /\ connectorConfig.statusColors.linked # connectorConfig.statusColors.manual
    /\ connectorConfig.statusColors.linked # connectorConfig.coupleLine.colorClass
    /\ Seg("parents-couple").stroke = ProbeColor(connectorConfig.statusColors.linked[1])
    /\ Seg("parents-bar").stroke = ProbeColor(connectorConfig.statusColors.linked[1])
    /\ FirstStatus(<< Self(rootMember), rootMember.spouse >>) = Undefined
    /\ Seg("root-couple-trunk").stroke = ProbeColor(connectorConfig.statusColors.default[1])

\* C21: each drop '<unit>-drop-<childId>' of a measured child is the vertical segment from
\* (the child's top-center X, the bus Y) to the child's top center, and is stroked with the
\* colour of the child's own status, whatever the status of the unit and of the other
\* children.
C21_DropPerChild ==
    Computed =>
      \A u \in TheUnits :
        MeasuredIn(u.parents) # {} =>
          \A i \in MeasuredIn(u.children) :
            LET id == u.id \o "-drop-" \o u.children[i].id
            IN  /\ SegCount(id) = 1
                /\ SegCount(u.id \o "-bar") = 1
                /\ Seg(id).d = << TopCenterX(u.children[i].id), Seg(u.id \o "-bar").d[2],
                                  TopCenterX(u.children[i].id), TopY(u.children[i].id) >>
                /\ Seg(id).stroke = UnitStroke(u.children[i].status, connectorConfig.drop)

\* A run in which two children of different colours hang from a unit of a third colour.
C21_Witness ==
    /\ Computed
    /\ Len(rootMember.children) = 2
    /\ rootMember.children[1].status = "linked"
    /\ rootMember.children[2].status = "manual"
    /\ rootMember.status = "invite_pending"
    /\ designPreset = "contrast" /\ designOverrides = EmptyObject
    /\ Seg("root-couple-drop-c1").stroke = "rgb(copy-primary)"
    /\ Seg("root-couple-drop-c2").stroke = "rgb(stroke-default)"
    /\ Seg("root-couple-bar").stroke = "rgb(amber-500)"

\* A list without its k-th element.
RemoveAt(members, k) == SubSeq(members, 1, k - 1) \o SubSeq(members, k + 1, Len(members))

\* The emitted segments of a unit, in order.
SegmentsOf(unitId) ==
    LET InUnit(segment) == segment.id \in UnitSegIds(unitId)
    IN  SelectSeq(lineSegments, InUnit)

\* The segments the parent-unit procedure gives a unit for a parent set and a child set.
UnitSegments(unitId, parents, children) ==
    LET calls == drawParentUnit(unitId, parents, children,
                                MeasureRects(nodeElements, scroll), connectorConfig)
    IN  [ i \in DOMAIN calls |-> addLine(calls[i], connectorConfig, EmptyObject) ]

\* C22 as stated: a parent without a measured rectangle contributes nothing to its unit:
\* the unit's segments (identifiers, paths, stroke colours and widths) are those emitted
\* when that parent is removed from the parent set.
C22_UnmeasuredParent ==
    Computed =>
      \A u \in TheUnits :
        \A k \in DOMAIN u.parents :
          ~IsMeasured(u.parents[k].id) =>
            SegmentsOf(u.id) = UnitSegments(u.id, RemoveAt(u.parents, k), u.children)

\* The part of C22 that holds: identifiers, paths and widths are those emitted without the
\* unmeasured parent.
C22_UnmeasuredParentGeometry ==
    Computed =>
      \A u \in TheUnits :
        \A k \in DOMAIN u.parents :
          ~IsMeasured(u.parents[k].id) =>
            LET Shape(segments) ==
                    [ i \in DOMAIN segments |->
                        << segments[i].id, segments[i].d, segments[i].strokeWidth >> ]
            IN  Shape(SegmentsOf(u.id))
                  = Shape(UnitSegments(u.id, RemoveAt(u.parents, k), u.children))

\* The direct calls of resolveColorFromClass so far, as indices of utilLog.
ColorCalls == { i \in DOMAIN utilLog : utilLog[i].fn = "color" }

\* The first colour token of the class string of call i; NoToken when it has none.
NoToken == [ none |-> TRUE ]
TokenOfCall(i) ==
    LET k == FirstColorToken(utilLog[i].arg)
    IN  IF k = 0 THEN NoToken ELSE utilLog[i].arg[k]

\* What a probe of a colour token computes under a style sheet.
ColorUnder(token, sheet) ==
    IF sheet = "light" THEN "rgb(" \o token.name \o ")" ELSE "rgb(" \o token.name \o "/dark)"

\* C23: over every sequence of calls, resolveColorFromClass returns 'currentColor' when the
\* class string has no token starting with bg-, text- or stroke-, and when there is no
\* window; otherwise the first call for a token returns the colour probed for the first
\* such token of the string, and every later call for that token returns that same colour
\* (from the cache), whatever the classes compute to by then.
C23_ColorResolution ==
    \A i \in ColorCalls :
      LET call    == utilLog[i]
          token   == TokenOfCall(i)
          earlier == { j \in ColorCalls : j < i /\ TokenOfCall(j) = token }
      IN  IF token = NoToken THEN call.result = "currentColor"
          ELSE IF ~hasWindow THEN call.result = "currentColor"
          ELSE IF earlier = {} THEN call.result = ColorUnder(token, call.theme)
          ELSE call.result = utilLog[Min(earlier)].result

\* Two calls for the same token, the second in a string that starts with another token and
\* under another style sheet, return the colour probed by the first.
C23_Witness ==
    /\ hasWindow
    /\ Len(utilLog) = 2
    /\ utilLog[1].fn = "color" /\ utilLog[2].fn = "color"
    /\ utilLog[1].arg = Name("bg-", "amber-500")
    /\ utilLog[2].arg = Name("flex-", "row") \o Name("bg-", "amber-500")
    /\ utilLog[1].theme = "light" /\ utilLog[2].theme = "dark"
    /\ utilLog[2].result = "rgb(amber-500)"

\* A call without a window on a string holding a colour token.
C23_WitnessNoWindow ==
    /\ ~hasWindow
    /\ \E i \in ColorCalls : TokenOfCall(i) # NoToken /\ utilLog[i].result = "currentColor"

\* The thickness tokens: 'h-px' / 'w-px', 'h-[Npx]' / 'w-[Npx]', 'h-N' / 'w-N'.
IsThicknessToken(token) ==
    token.pre \in ThicknessPrefixes /\ token.kind \in {"px", "bracket", "num"}

\* C24 as stated: parseThicknessPx returns the value of the first thickness token of the
\* string, 1 for a hairline token and N for a bracketed or bare one; 1 when the string has
\* no thickness token; a token that is not a thickness token never decides the result.
C24_FirstThicknessToken ==
    \A i \in DOMAIN utilLog :
      utilLog[i].fn = "thickness" =>
        LET value == utilLog[i].arg
            hits  == { k \in DOMAIN value : IsThicknessToken(value[k]) }
        IN  utilLog[i].result =
              IF hits = {} THEN 1
              ELSE IF value[Min(hits)].kind = "px" THEN 1
              ELSE value[Min(hits)].n

\* The part of C24 that holds: on strings whose tokens all start with their utility prefix
\* as written (no h- or w- inside a longer prefix), the first thickness token decides.
C24_OnPlainTokens ==
    \A i \in DOMAIN utilLog :
      (/\ utilLog[i].fn = "thickness"
       /\ \A k \in DOMAIN utilLog[i].arg :
            utilLog[i].arg[k].pre \notin (EndingInThickness \ ThicknessPrefixes)) =>
        LET value == utilLog[i].arg
            hits  == { k \in DOMAIN value : IsThicknessToken(value[k]) }
        IN  utilLog[i].result =
              IF hits = {} THEN 1
              ELSE IF value[Min(hits)].kind = "px" THEN 1
              ELSE value[Min(hits)].n

\* C25: a response, fulfilled or rejected, to a search whose debounced query has been
\* superseded or whose dialog has unmounted changes neither searchResults nor isSearching
\* (nor anything else of the dialog); and whenever the dialog is not searching and holds
\* results, they are the provider's response to the current debounced query.
C25_StaleResponsesIgnored ==
    /\ [][ (dialogLast'.kind \in {"searchFulfilled", "searchRejected"} /\ ~dialogLast'.active)
             => dialog' = dialog ]_vars
    /\ [](( Mounted /\ ~dialog.isSearching /\ dialog.searchResults # << >> )
             => dialog.searchResults = ResponseTo(dialog.debouncedQuery).value)

\* The response to the superseded query "a" arrives after the response to the current
\* query "b": the results of "b" stay.
C25_Witness ==
    /\ Mounted
    /\ dialogLast.kind = "searchFulfilled" /\ ~dialogLast.active
    /\ dialog.debouncedQuery = "b"
    /\ ~dialog.isSearching
    /\ dialog.searchResults = ResponseTo("b").value
    /\ searches = {}

\* The response to a search arrives after its dialog has unmounted.
C25_WitnessUnmounted ==
    /\ ~Mounted
    /\ dialogLast.kind = "searchFulfilled" /\ ~dialogLast.active

C27_RejectKeepsDialog ==
    /\ [][ /\ (dialogLast'.kind = "submit") => dialogState' = dialogState
           /\ (dialogLast'.kind = "onAddRejected" /\ submissions' # submissions) =>
                /\ dialogState' = dialogState
                /\ dialog' = [ dialog EXCEPT !.isSubmitting = FALSE ]
           /\ (dialogState.isOpen /\ ~dialogState'.isOpen /\ submissions # {}) =>
                dialogLast'.kind \in {"onAddFulfilled", "user"} ]_vars
    /\ []( dialogLast.kind = "onAddRejected" => ((~SubmitIgnored(dialog)) <=> canSubmit(dialog)) )
    /\ []( (dialogLast.kind = "submit" /\ dialogLast.called) => dialog.isSubmitting )

\* onAdd has rejected: the dialog is open with the entered name and can be submitted again.
C27_Witness ==
    /\ dialogLast.kind = "onAddRejected"
    /\ dialogState.isOpen
    /\ dialog.mode = "manual" /\ dialog.manualName = "Bo"
    /\ ~dialog.isSubmitting
    /\ ~SubmitIgnored(dialog)

C28_WitnessHidden ==
    /\ Mounted /\ ~dialogState.isOpen
    /\ dialog.selectedProfile # NoProfile /\ dialog.mode = "manual"

\* The emitted drops of a unit.
DropSegs(unitId) == { i \in DOMAIN lineSegments : lineSegments[i].id \in DropIds(unitId) }

\* C29: within every unit that emits a trunk the connector is connected.  Trunk, bus and at
\* least one drop are emitted together or not at all; the trunk is vertical, starts at the
\* junction and ends on the bus (its X within [bus left, bus right], its end Y the bus Y);
\* the bus is horizontal; and every drop is vertical and starts on the bus (its X within
\* [bus left, bus right], its start Y the bus Y).
C29_ConnectedUnit ==
    Computed =>
      \A unitId \in {"parents", "root-couple", "root-single"} :
        LET hasTrunk == SegCount(unitId \o "-trunk") > 0
            hasBar   == SegCount(unitId \o "-bar") > 0
            hasDrop  == DropSegs(unitId) # {}
        IN  /\ hasTrunk <=> hasBar
            /\ hasTrunk <=> hasDrop
            /\ hasTrunk =>
                 LET trunk == Seg(unitId \o "-trunk").d
                     bar   == Seg(unitId \o "-bar").d
                 IN  /\ SegCount(unitId \o "-trunk") = 1 /\ SegCount(unitId \o "-bar") = 1
                     /\ \E u \in TheUnits :
                          /\ u.id = unitId
                          /\ LET junction == Junction(SortByLeft(Entries(u.parents,
                                                 MeasureRects(nodeElements, scroll))), connectorConfig)
                             IN  << trunk[1], trunk[2] >> = << junction.x, junction.y >>
                     /\ trunk[1] = trunk[3]
                     /\ bar[2] = bar[4] /\ bar[1] <= bar[3]
                     /\ trunk[4] = bar[2]
                     /\ bar[1] <= trunk[1] /\ trunk[1] <= bar[3]
                     /\ \A i \in DropSegs(unitId) :
                          LET drop == lineSegments[i].d
                          IN  /\ drop[1] = drop[3]
                              /\ drop[2] = bar[2]
                              /\ bar[1] <= drop[1] /\ drop[1] <= bar[3]

\* A unit whose junction lies left of all its drops: the bus starts at the trunk, and two
\* drops hang from it at different heights.
C29_Witness ==
    /\ Computed
    /\ \E unitId \in {"parents", "root-couple", "root-single"} :
         /\ SegCount(unitId \o "-trunk") = 1 /\ SegCount(unitId \o "-bar") = 1
         /\ Cardinality(DropSegs(unitId)) >= 2
         /\ \A i \in DropSegs(unitId) : Seg(unitId \o "-trunk").d[1] < lineSegments[i].d[1]
         /\ Seg(unitId \o "-bar").d[1] = Seg(unitId \o "-trunk").d[1]
         /\ \E i, j \in DropSegs(unitId) : lineSegments[i].d[4] # lineSegments[j].d[4]

\* A unit with a couple line and no child emits neither trunk, bus nor drop.
C29_WitnessNone ==
    /\ Computed
    /\ SegCount("root-couple-couple") = 1
    /\ SegCount("root-couple-trunk") = 0 /\ SegCount("root-couple-bar") = 0
    /\ DropSegs("root-couple") = {}

\* C30: the anchor of the add-member dialog.  The dialog is opened, or its anchor changed
\* while it is open, only by the add menu of a card, and then relation and parentId are
\* those of that menu; a change of rootMember.id while the dialog is open leaves
\* dialogState as it is, and a change while it is closed sets parentId to the new root id
\* and leaves the rest; and a menu used while canEdit is false or onAddMember is absent
\* opens nothing.
C30_AnchorWhileOpen ==
    [][ /\ (dialogLast'.kind = "rootChange") =>
             /\ dialogLast'.wasOpen = dialogState.isOpen
             /\ rootMember'.id # rootMember.id
             /\ dialogState' = IF dialogState.isOpen THEN dialogState
                               ELSE [ dialogState EXCEPT !.parentId = rootMember'.id ]
        /\ (dialogState'.isOpen /\ dialogState' # dialogState) =>
             /\ dialogLast'.kind = "addMember" /\ dialogLast'.opened
             /\ hostProps.canEdit /\ hostProps.onAddMember
             /\ dialogState'.parentId = dialogLast'.menu.parentId
             /\ dialogState'.relation = dialogLast'.menu.relation
        /\ (dialogLast'.kind = "addMember" /\ ~(hostProps.canEdit /\ hostProps.onAddMember)) =>
             /\ ~dialogLast'.opened
             /\ dialogState' = dialogState ]_vars

\* The root's id changed while the dialog was open on the root's card: the anchor is the
\* old id.
C30_Witness ==
    /\ dialogLast.kind = "rootChange" /\ dialogLast.wasOpen
    /\ dialogState.isOpen
    /\ dialogState.parentId = "root" /\ rootMember.id = "r2"

\* The root's id changed while the dialog, last opened from a parent's card, was closed.
C30_WitnessClosed ==
    /\ dialogLast.kind = "rootChange" /\ ~dialogLast.wasOpen
    /\ ~dialogState.isOpen
    /\ dialogState.relation = "child" /\ dialogState.parentId = "r2"

\* A menu used while canEdit is false.
C30_WitnessNotOpened ==
    /\ dialogLast.kind = "addMember" /\ ~dialogLast.opened
    /\ ~hostProps.canEdit /\ hostProps.onAddMember
    /\ ~dialogState.isOpen

====
